---- MODULE Spec2Model ----
(***************************************************************************)
(* Connection state machine of the MCP server's device module (device.ts), *)
(* with the command-correlation layer embedded in it, and the ADB device    *)
(* tracker (adb-tracker.ts): Spec has the state machine with the tracker   *)
(* delivering whole snapshots, TrackerSpec the tracker on its own with its *)
(* stream followed token by token, CommandSpec the command layer over the  *)
(* Session with the tracker's connection staying up.                       *)
(*                                                                         *)
(* One action is one callback turn of the Node.js event loop: a public API *)
(* call, a socket event handler, or a timer callback, run to completion.   *)
(* Helper functions of the source are operators from machine record to     *)
(* machine record, composed in the order the source calls them.            *)
(*                                                                         *)
(* Runtime facts used (node:net): destroy() sets sock.destroyed at once    *)
(* and the 'close' event is emitted in a later turn; a destroyed socket    *)
(* emits neither 'connect' nor 'data'; a socket error destroys the socket  *)
(* and emits 'error' before 'close'; clearTimeout prevents the callback.   *)
(***************************************************************************)
EXTENDS Integers, Sequences, FiniteSets, TLC

\* ── Bounds ─────────────────────────────────────────────────────────────────
MaxSessions == 2          \* sockets that exist at once (current, or awaiting 'close')
MaxCmds == 2              \* commands in flight at once
MaxBuf == 1               \* tokens a socket's line buffer may hold between turns
MaxTrackerSocks == 1      \* tracker sockets that exist at once (held, or awaiting 'close')
MaxWire == 8              \* tokens the tracker's buffer may hold when a chunk was added

\* ── Values ─────────────────────────────────────────────────────────────────
NoDev == "null"                       \* null for string | null
NoSock == 0                           \* null for net.Socket | null
ValidIds == {"emu1", "emu2"}          \* ids the forwarding call accepts
BadId == "bad id"                     \* an id the forwarding call rejects
DeviceIds == ValidIds \cup {BadId}     \* what a caller may pass to connect
TrackedIds == ValidIds                \* serials the daemon's snapshots list
SockIds == 1..MaxSessions
CmdIds == 1..MaxCmds
ConnectionState == {"disconnected", "connecting", "connected", "waiting_for_device"}
TrackerStates == {"device"}            \* states the daemon's snapshots report
NL == 0                               \* the newline byte of the framing
PrefixLen == 4                        \* characters of the status word and of a length prefix
Junk == -1                            \* text that is not a JSON object carrying an id
Tokens == {NL, Junk} \cup CmdIds      \* c in CmdIds: the JSON text of a response carrying id c

VARIABLES
  state,                  \* ConnectionState
  socket,                 \* current Session: a SockIds member or NoSock
  connectedDeviceId,
  targetDeviceId,
  retryTimer,             \* NoDev, or the deviceId captured by the scheduled callback
  trackerReconnectTimer,  \* NoDev, or the deviceId captured by the scheduled callback
  pendingRequests,        \* keys of the PendingCommand map
  disconnectCallback,     \* FALSE for null, TRUE once onDisconnect registered one
  socks,                  \* per net.Socket: runtime flags and closure variables
  cmds,                   \* per command: promise status, deadline timer, settle calls
  active,                 \* adb-tracker: tracking requested
  eventListener,          \* adb-tracker: listener registered
  knownDevices,           \* adb-tracker: deviceId -> last seen state, NoDev when absent
  trackerSocket,          \* adb-tracker: "null", or "live" when a socket is held
  trackerStale,           \* adb-tracker: released sockets whose 'close' is to come
  trackerRetryTimer,      \* adb-tracker: its retryTimer is scheduled
  trackerConn             \* adb-tracker: closure variables of the held socket

vars == <<state, socket, connectedDeviceId, targetDeviceId, retryTimer,
          trackerReconnectTimer, pendingRequests, disconnectCallback, socks,
          cmds, active, eventListener, knownDevices, trackerSocket,
          trackerStale, trackerRetryTimer, trackerConn>>

\* ── Records ────────────────────────────────────────────────────────────────
\* A socket id is free until "new net.Socket()" takes it, and free again once
\* the socket's 'close' event was delivered: nothing refers to it after that.
\* Runtime side: created, opened ('connect' was emitted), destroyed
\* (sock.destroyed), errPending ('error' is emitted before 'close').
\* Closure variables: deviceId, cleanupCalled, connectTimer, socketBuffer,
\* and waiter, the pending promise of the connectToDevice call that made it.
\* origin tells which caller of transitionToConnecting made the socket.
NewSock ==
  [created |-> FALSE, opened |-> FALSE, destroyed |-> FALSE, errPending |-> FALSE,
   deviceId |-> NoDev, cleanupCalled |-> FALSE, connectTimer |-> FALSE,
   socketBuffer |-> <<>>, waiter |-> FALSE, origin |-> "none"]

\* The closure variables connectToAdb declares for the socket it makes, and
\* destroyed, the runtime's sock.destroyed. The record is back at these values
\* when no socket is held: nothing reads the variables of a released socket.
NewConn ==
  [buffer |-> <<>>, receivedOkay |-> FALSE, expectingLength |-> TRUE,
   payloadLength |-> 0, destroyed |-> FALSE]

\* A command id is free until sendCommand takes it, and free again once its
\* promise is settled, its entry deleted and its deadline timer gone.
NewCmd == [status |-> "free", timer |-> FALSE, settles |-> 0]

\* What one callback turn did, kept in the machine record while the turn
\* runs: the calls to adbForward and to the disconnect callback, the timers
\* it scheduled, the commands it settled and how, the sock.write calls, and how
\* it settled the promise of an API call ("resolved", "rejected",
\* "not_connected", or "pending" when it returned one); thrown: an exception
\* is propagating, and the statements that follow in the turn are skipped.
\* Of the tracker: events, the device events it emitted, each with the
\* mapping getKnownDeviceState read from while the listener ran; snapshots,
\* the calls of processDeviceList; trackerRetries, the timers its
\* scheduleRetry set. execs: the runs of the external adb command, which
\* adbForward starts only for an id that passes its validation. released:
\* the sockets destroyExistingSocket destroyed, each with the value the
\* variable socket had when destroy() was called. observed: state and socket
\* as they were when the disconnect callback was called. orphaned: reconnect
\* timers left running after the variable that held them was overwritten.
EmptyLog ==
  [forwards |-> 0, notified |-> 0, scheduled |-> {}, settled |-> {},
   writes |-> 0, thrown |-> FALSE, result |-> "none", events |-> <<>>,
   snapshots |-> 0, trackerRetries |-> 0, execs |-> 0, released |-> {},
   observed |-> {}, orphaned |-> 0]

\* The machine as one record, so that the source's helpers compose.
Cur ==
  [state |-> state, socket |-> socket, connectedDeviceId |-> connectedDeviceId,
   targetDeviceId |-> targetDeviceId, retryTimer |-> retryTimer,
   trackerReconnectTimer |-> trackerReconnectTimer,
   pendingRequests |-> pendingRequests, disconnectCallback |-> disconnectCallback,
   socks |-> socks, cmds |-> cmds,
   active |-> active, eventListener |-> eventListener,
   knownDevices |-> knownDevices, trackerSocket |-> trackerSocket,
   trackerStale |-> trackerStale, trackerRetryTimer |-> trackerRetryTimer,
   trackerConn |-> trackerConn,
   log |-> EmptyLog]

\* Command ids whose promise was settled once, whose entry is deleted and whose
\* deadline timer is gone are free again.
Reclaim(cs, pending) ==
  [c \in CmdIds |->
     IF cs[c].status = "settled" /\ cs[c].settles = 1 /\ ~cs[c].timer /\ c \notin pending
       THEN NewCmd ELSE cs[c]]

Commit(m) ==
  /\ state' = m.state
  /\ socket' = m.socket
  /\ connectedDeviceId' = m.connectedDeviceId
  /\ targetDeviceId' = m.targetDeviceId
  /\ retryTimer' = m.retryTimer
  /\ trackerReconnectTimer' = m.trackerReconnectTimer
  /\ pendingRequests' = m.pendingRequests
  /\ disconnectCallback' = m.disconnectCallback
  /\ socks' = m.socks
  /\ cmds' = Reclaim(m.cmds, m.pendingRequests)
  /\ active' = m.active
  /\ eventListener' = m.eventListener
  /\ knownDevices' = m.knownDevices
  /\ trackerSocket' = m.trackerSocket
  /\ trackerStale' = m.trackerStale
  /\ trackerRetryTimer' = m.trackerRetryTimer
  /\ trackerConn' = m.trackerConn

Init ==
  /\ state = "disconnected"
  /\ socket = NoSock
  /\ connectedDeviceId = NoDev
  /\ targetDeviceId = NoDev
  /\ retryTimer = NoDev
  /\ trackerReconnectTimer = NoDev
  /\ pendingRequests = {}
  /\ disconnectCallback = FALSE
  /\ socks = [s \in SockIds |-> NewSock]
  /\ cmds = [c \in CmdIds |-> NewCmd]
  /\ active = FALSE
  /\ eventListener = FALSE
  /\ knownDevices = [d \in TrackedIds |-> NoDev]
  /\ trackerSocket = "null"
  /\ trackerStale = 0
  /\ trackerRetryTimer = FALSE
  /\ trackerConn = NewConn

\* ── Internal: Helpers ──────────────────────────────────────────────────────

\* Mutant: the timers are left scheduled.
clearAllTimers_none(m) == m

clearAllTimers(m) ==
  [m EXCEPT !.retryTimer = NoDev, !.trackerReconnectTimer = NoDev]

\* sock.destroy(): a no-op on a destroyed socket; otherwise the socket is
\* destroyed now and its 'close' event is delivered in a later turn. A
\* destroyed socket emits no 'connect' and no 'data', so what it had received
\* of an unfinished line is never read again.
Destroy(sk, withError) ==
  IF sk.destroyed THEN sk
  ELSE [sk EXCEPT !.destroyed = TRUE, !.errPending = withError,
                  !.opened = FALSE, !.socketBuffer = <<>>, !.origin = "none"]

\* Mutant: the reference is kept while the old socket is destroyed.
destroyExistingSocket_keepRef(m) ==
  IF m.socket # NoSock /\ ~m.socks[m.socket].destroyed
    THEN [m EXCEPT !.socks[m.socket] = Destroy(@, FALSE), !.connectedDeviceId = NoDev]
    ELSE [m EXCEPT !.connectedDeviceId = NoDev]

\* Mutant: the reference is dropped and the old socket is left open.
destroyExistingSocket_noDestroy(m) ==
  [m EXCEPT !.socket = NoSock, !.connectedDeviceId = NoDev]

\* Mutant: the old socket is destroyed first and the reference nulled after.
destroyExistingSocket_destroyFirst(m) ==
  LET old == m.socket
      m1 == IF old # NoSock /\ ~m.socks[old].destroyed
              THEN [m EXCEPT !.socks[old] = Destroy(@, FALSE),
                             !.log.released = @ \cup {[sock |-> old, current |-> m.socket]}]
              ELSE m
  IN [m1 EXCEPT !.socket = NoSock, !.connectedDeviceId = NoDev]

destroyExistingSocket(m) ==
  LET old == m.socket
      m1 == [m EXCEPT !.socket = NoSock, !.connectedDeviceId = NoDev]
  IN IF old # NoSock /\ ~m.socks[old].destroyed
       THEN [m1 EXCEPT !.socks[old] = Destroy(@, FALSE),
                       !.log.released = @ \cup {[sock |-> old, current |-> m1.socket]}]
       ELSE m1

\* entry.resolve(...) / entry.reject(...): a call on the promise of command id.
Settle(m, id, outcome) ==
  [m EXCEPT !.cmds[id].status = "settled",
            !.cmds[id].settles = @ + 1,
            !.log.settled = @ \cup {<<id, outcome>>}]

\* Mutant: the deadline timer is left running.
ClearCommandTimer_none(m, id) == m

\* clearTimeout(entry.timer)
ClearCommandTimer(m, id) == [m EXCEPT !.cmds[id].timer = FALSE]

RECURSIVE rejectEntries(_, _, _)
rejectEntries(m, ids, reason) ==
  IF ids = {} THEN m
  ELSE LET id == CHOOSE x \in ids : TRUE
           m1 == Settle(ClearCommandTimer(m, id), id, reason)
       IN rejectEntries([m1 EXCEPT !.pendingRequests = @ \ {id}], ids \ {id}, reason)

rejectAllPending(m, reason) == rejectEntries(m, m.pendingRequests, reason)

\* Mutant: the callback is called outside try/catch.
notifyDisconnect_propagates(m, cbThrows) ==
  IF m.disconnectCallback
    THEN [m EXCEPT !.log.notified = @ + 1, !.log.thrown = cbThrows,
                   !.log.observed = @ \cup {[state |-> m.state, socket |-> m.socket]}]
    ELSE m

\* disconnectCallback?.() inside try/catch: an exception of the callback
\* (cbThrows) is caught and logged here. The callback runs on the machine as
\* it is at the call.
notifyDisconnect(m, cbThrows) ==
  IF m.disconnectCallback
    THEN [m EXCEPT !.log.notified = @ + 1,
                   !.log.observed = @ \cup {[state |-> m.state, socket |-> m.socket]}]
    ELSE m

\* ── adb-tracker.ts: tracking state and the connection to the adb server ────

NoDevices == [d \in TrackedIds |-> NoDev]

\* trackerSocket.destroy(); trackerSocket = null: the released socket still
\* has its 'close' event to deliver.
ReleaseTrackerSocket(m) ==
  IF m.trackerSocket = "null" THEN m
  ELSE [m EXCEPT !.trackerSocket = "null", !.trackerStale = @ + 1,
                 !.trackerConn = NewConn]

\* Mutant: the mapping of the previous connection is kept.
connectToAdb_keepsKnown(m) ==
  IF ~m.active THEN m
  ELSE [ReleaseTrackerSocket(m) EXCEPT !.trackerSocket = "live",
                                       !.trackerConn = NewConn]

connectToAdb(m) ==
  IF ~m.active THEN m
  ELSE [ReleaseTrackerSocket([m EXCEPT !.knownDevices = NoDevices])
          EXCEPT !.trackerSocket = "live", !.trackerConn = NewConn]

\* Mutant: every call opens a connection to the daemon.
startTracking_reconnects(m) ==
  connectToAdb([m EXCEPT !.active = TRUE, !.eventListener = TRUE])

startTracking(m) ==
  IF m.active
    THEN [m EXCEPT !.eventListener = TRUE]
    ELSE connectToAdb([m EXCEPT !.active = TRUE, !.eventListener = TRUE])

stopTracking(m) ==
  [ReleaseTrackerSocket([m EXCEPT !.active = FALSE, !.eventListener = FALSE,
                                  !.trackerRetryTimer = FALSE])
     EXCEPT !.knownDevices = NoDevices]

\* adb-tracker's scheduleRetry
trackerScheduleRetry(m) ==
  IF ~m.active \/ m.trackerRetryTimer THEN m
  ELSE [m EXCEPT !.trackerRetryTimer = TRUE, !.log.trackerRetries = @ + 1]

\* Mutant: the lost connection is forgotten and no retry is scheduled.
handleGone_noRetry(m, held) ==
  IF ~held THEN m
  ELSE [m EXCEPT !.trackerSocket = "null", !.trackerConn = NewConn]

\* handleGone of a tracker socket, run once for its 'error' and 'close';
\* held: the socket is the one trackerSocket holds.
handleGone(m, held) ==
  IF ~held THEN m
  ELSE trackerScheduleRetry(
         [m EXCEPT !.trackerSocket = "null", !.trackerConn = NewConn])

\* The callback of adb-tracker's retryTimer.
onTrackerRetryTimer(m) == connectToAdb([m EXCEPT !.trackerRetryTimer = FALSE])

\* knownDevices.get(deviceId): NoDev stands for undefined.
getKnownDeviceState(m, deviceId) ==
  IF deviceId \in TrackedIds THEN m.knownDevices[deviceId] ELSE NoDev

initDevice(m) == startTracking(m)

\* ── Internal: State Machine ────────────────────────────────────────────────

\* adbForward(deviceId): throws for an id that fails validation, and
\* otherwise when the external adb call fails or times out (envOk = FALSE).
validateDeviceId(deviceId) == deviceId \in ValidIds

adbForward(deviceId, envOk) == validateDeviceId(deviceId) /\ envOk

setupSocketHandlers(m, sock, deviceId) ==
  [m EXCEPT !.socks[sock] = [NewSock EXCEPT !.created = TRUE, !.deviceId = deviceId,
                                            !.connectTimer = TRUE]]

FreeSocks(m) == {s \in SockIds : ~m.socks[s].created}

\* Mutant: the transition does not cancel the timers.
transitionToConnecting_keepTimers(m, deviceId, envOk) ==
  LET m2 == destroyExistingSocket(m)
      m3 == [m2 EXCEPT !.log.forwards = @ + 1,
                       !.log.execs = @ + (IF validateDeviceId(deviceId) THEN 1 ELSE 0)]
  IN IF ~adbForward(deviceId, envOk) THEN m3
     ELSE LET sock == CHOOSE s \in FreeSocks(m3) : \A t \in FreeSocks(m3) : s <= t
          IN setupSocketHandlers(
               [m3 EXCEPT !.socket = sock, !.state = "connecting"], sock, deviceId)

\* The machine after transitionToConnecting returned or threw; it throws
\* exactly when adbForward(deviceId, envOk) is FALSE.
transitionToConnecting(m, deviceId, envOk) ==
  LET m1 == clearAllTimers(m)
      m2 == destroyExistingSocket(m1)
      m3 == [m2 EXCEPT !.log.forwards = @ + 1,
                       !.log.execs = @ + (IF validateDeviceId(deviceId) THEN 1 ELSE 0)]
  IN IF ~adbForward(deviceId, envOk) THEN m3
     ELSE LET sock == CHOOSE s \in FreeSocks(m3) : \A t \in FreeSocks(m3) : s <= t
          IN setupSocketHandlers(
               [m3 EXCEPT !.socket = sock, !.state = "connecting"], sock, deviceId)

\* ── Internal: Retry & Reconnect Helpers ────────────────────────────────────

\* Mutant: no retry is scheduled.
scheduleRetry_none(m, deviceId) == m

\* setTimeout(...) storing the captured deviceId; an earlier instance is cleared.
scheduleRetry(m, deviceId) ==
  [m EXCEPT !.retryTimer = deviceId, !.log.scheduled = @ \cup {"retry"}]

\* Mutant: an earlier instance is overwritten without clearTimeout.
scheduleTrackerReconnect_noClear(m, deviceId) ==
  [m EXCEPT !.trackerReconnectTimer = deviceId, !.log.scheduled = @ \cup {"tracker"},
            !.log.orphaned = @ + (IF m.trackerReconnectTimer # NoDev THEN 1 ELSE 0)]

\* As scheduleRetry, for trackerReconnectTimer: clearTimeout on the earlier
\* instance, if any, so no instance is left running outside the variable.
scheduleTrackerReconnect(m, deviceId) ==
  [m EXCEPT !.trackerReconnectTimer = deviceId, !.log.scheduled = @ \cup {"tracker"}]

checkTrackerForDevice(m) ==
  IF m.state # "waiting_for_device" \/ m.targetDeviceId = NoDev THEN m
  ELSE IF getKnownDeviceState(m, m.targetDeviceId) = "device"
         THEN scheduleTrackerReconnect(m, m.targetDeviceId)
         ELSE m

handleTrackerEvent(m, event) ==
  IF /\ event.state = "device"
     /\ event.deviceId = m.targetDeviceId
     /\ m.state = "waiting_for_device"
    THEN scheduleTrackerReconnect(m, event.deviceId)
    ELSE m

\* ── Socket handlers (setupSocketHandlers) ──────────────────────────────────

\* Mutant: no stale socket guard.
StaleSocket_never(m, sock) == FALSE

\* The stale socket guard: socket !== sock.
StaleSocket(m, sock) == m.socket # sock

\* Mutant: the handshake deadline is left running.
ClearConnectTimer_none(m, sock) == m

\* clearTimeout(connectTimer)
ClearConnectTimer(m, sock) == [m EXCEPT !.socks[sock].connectTimer = FALSE]

\* sock.on("connect", ...), then connectToDevice's once("connect", onConnect).
onConnectEvent(m, sock) ==
  LET m1 == ClearConnectTimer([m EXCEPT !.socks[sock].opened = TRUE], sock)
      m2 == IF StaleSocket(m1, sock) THEN m1
            ELSE [m1 EXCEPT !.state = "connected",
                            !.connectedDeviceId = m1.socks[sock].deviceId]
  IN IF m2.socks[sock].waiter
       THEN [m2 EXCEPT !.socks[sock].waiter = FALSE, !.log.result = "resolved"]
       ELSE m2

\* connectTimer callback: sock.destroy(new Error("Connect timeout"))
onConnectTimer(m, sock) ==
  [m EXCEPT !.socks[sock] = [Destroy(@, TRUE) EXCEPT !.connectTimer = FALSE]]

\* Mutant: the error handler reports the disconnect as well.
onErrorEvent_notifies(m, sock) ==
  notifyDisconnect(
    [m EXCEPT !.socks[sock] = [Destroy(@, FALSE) EXCEPT !.errPending = FALSE]],
    FALSE)

\* sock.on("error", ...): sock.destroy()
onErrorEvent(m, sock) ==
  [m EXCEPT !.socks[sock] = [Destroy(@, FALSE) EXCEPT !.errPending = FALSE]]

\* Mutant: a Session that closes before its handshake gives the target up.
closeCleanup_forgetsTarget(m, sock, cbThrows) ==
  LET deviceId == m.socks[sock].deviceId
      m1 == rejectAllPending(m, "closed")
      wasConnected == m1.state = "connected"
      m2 == [m1 EXCEPT !.socket = NoSock, !.connectedDeviceId = NoDev]
      m3 == IF wasConnected THEN notifyDisconnect(m2, cbThrows)
            ELSE [m2 EXCEPT !.targetDeviceId = NoDev]
  IN IF m3.log.thrown THEN m3
     ELSE IF m3.targetDeviceId = NoDev
       THEN [m3 EXCEPT !.state = "disconnected"]
       ELSE LET m4 == [m3 EXCEPT !.state = "waiting_for_device"]
                m5 == IF wasConnected THEN scheduleRetry(m4, deviceId) ELSE m4
            IN checkTrackerForDevice(m5)

\* Mutant: the close handler does not consult the tracker.
closeCleanup_noTrackerCheck(m, sock, cbThrows) ==
  LET deviceId == m.socks[sock].deviceId
      m1 == rejectAllPending(m, "closed")
      wasConnected == m1.state = "connected"
      m2 == [m1 EXCEPT !.socket = NoSock, !.connectedDeviceId = NoDev]
      m3 == IF wasConnected THEN notifyDisconnect(m2, cbThrows) ELSE m2
  IN IF m3.log.thrown THEN m3
     ELSE IF m3.targetDeviceId = NoDev
       THEN [m3 EXCEPT !.state = "disconnected"]
       ELSE LET m4 == [m3 EXCEPT !.state = "waiting_for_device"]
            IN IF wasConnected THEN scheduleRetry(m4, deviceId) ELSE m4

\* Mutant: the quick retry is scheduled after every close of the current
\* Session, connected or not.
closeCleanup_alwaysRetries(m, sock, cbThrows) ==
  LET deviceId == m.socks[sock].deviceId
      m1 == rejectAllPending(m, "closed")
      wasConnected == m1.state = "connected"
      m2 == [m1 EXCEPT !.socket = NoSock, !.connectedDeviceId = NoDev]
      m3 == IF wasConnected THEN notifyDisconnect(m2, cbThrows) ELSE m2
  IN IF m3.log.thrown THEN m3
     ELSE IF m3.targetDeviceId = NoDev
       THEN [m3 EXCEPT !.state = "disconnected"]
       ELSE checkTrackerForDevice(
              scheduleRetry([m3 EXCEPT !.state = "waiting_for_device"], deviceId))

\* Mutant: the callback is called before the reference is nulled.
closeCleanup_notifiesFirst(m, sock, cbThrows) ==
  LET deviceId == m.socks[sock].deviceId
      m1 == rejectAllPending(m, "closed")
      wasConnected == m1.state = "connected"
      m2 == IF wasConnected THEN notifyDisconnect(m1, cbThrows) ELSE m1
      m3 == [m2 EXCEPT !.socket = NoSock, !.connectedDeviceId = NoDev]
  IN IF m3.log.thrown THEN m3
     ELSE IF m3.targetDeviceId = NoDev
       THEN [m3 EXCEPT !.state = "disconnected"]
       ELSE LET m4 == [m3 EXCEPT !.state = "waiting_for_device"]
                m5 == IF wasConnected THEN scheduleRetry(m4, deviceId) ELSE m4
            IN checkTrackerForDevice(m5)

\* The cleanup of the close handler, run when the closing socket is current.
closeCleanup(m, sock, cbThrows) ==
  LET deviceId == m.socks[sock].deviceId
      m1 == rejectAllPending(m, "closed")
      wasConnected == m1.state = "connected"
      m2 == [m1 EXCEPT !.socket = NoSock, !.connectedDeviceId = NoDev]
      m3 == IF wasConnected THEN notifyDisconnect(m2, cbThrows) ELSE m2
  IN IF m3.log.thrown THEN m3
     ELSE IF m3.targetDeviceId = NoDev
       THEN [m3 EXCEPT !.state = "disconnected"]
       ELSE LET m4 == [m3 EXCEPT !.state = "waiting_for_device"]
                m5 == IF wasConnected THEN scheduleRetry(m4, deviceId) ELSE m4
            IN checkTrackerForDevice(m5)

\* Mutant: connectToDevice's promise has no listener for 'close'.
onCloseEvent_noOnClose(m, sock, cbThrows) ==
  LET m1 == ClearConnectTimer(m, sock)
      m2 == IF m1.socks[sock].cleanupCalled THEN m1
            ELSE LET m1a == [m1 EXCEPT !.socks[sock].cleanupCalled = TRUE]
                 IN IF StaleSocket(m1a, sock) THEN m1a
                    ELSE closeCleanup(m1a, sock, cbThrows)
  IN [m2 EXCEPT !.socks[sock] = NewSock]

\* sock.on("close", ...), then connectToDevice's once("close", onClose).
\* 'close' is the last event of a socket: its id is free afterwards.
onCloseEvent(m, sock, cbThrows) ==
  LET m1 == ClearConnectTimer(m, sock)
      m2 == IF m1.socks[sock].cleanupCalled THEN m1
            ELSE LET m1a == [m1 EXCEPT !.socks[sock].cleanupCalled = TRUE]
                 IN IF StaleSocket(m1a, sock) THEN m1a
                    ELSE closeCleanup(m1a, sock, cbThrows)
      m3 == IF m2.socks[sock].waiter
              THEN [m2 EXCEPT !.log.result = "rejected"]
              ELSE m2
  IN [m3 EXCEPT !.socks[sock] = NewSock]

\* ── Framing of the data handler ────────────────────────────────────────────

\* socketBuffer.split("\n") without its last element: the complete lines.
RECURSIVE Lines(_, _)
Lines(bytes, cur) ==
  IF bytes = <<>> THEN <<>>
  ELSE IF Head(bytes) = NL THEN <<cur>> \o Lines(Tail(bytes), <<>>)
  ELSE Lines(Tail(bytes), Append(cur, Head(bytes)))

\* lines.pop(): what follows the last newline.
RECURSIVE Rest(_, _)
Rest(bytes, cur) ==
  IF bytes = <<>> THEN cur
  ELSE IF Head(bytes) = NL THEN Rest(Tail(bytes), <<>>)
  ELSE Rest(Tail(bytes), Append(cur, Head(bytes)))

\* JSON.parse(line).id: the id of a line that is one response object, else 0
\* (the parse threw, or the object carries no id).
ParsedId(line) == IF Len(line) = 1 /\ line[1] \in CmdIds THEN line[1] ELSE 0

\* Mutant: the entry is used without testing that the map has it.
dispatchLine_noHasTest(m, line) ==
  LET id == ParsedId(line)
  IN IF line = <<>> \/ id = 0 THEN m
     ELSE [Settle(ClearCommandTimer(m, id), id, "resolved")
             EXCEPT !.pendingRequests = @ \ {id}]

\* Mutant: a response is matched by position, to the oldest entry of the map.
dispatchLine_byPosition(m, line) ==
  LET id == ParsedId(line)
  IN IF line = <<>> \/ id = 0 \/ m.pendingRequests = {} THEN m
     ELSE LET first == CHOOSE c \in m.pendingRequests :
                         \A d \in m.pendingRequests : c <= d
          IN [Settle(ClearCommandTimer(m, first), first, "resolved")
                EXCEPT !.pendingRequests = @ \ {first}]

dispatchLine(m, line) ==
  LET id == ParsedId(line)
  IN IF line = <<>> THEN m
     ELSE IF id # 0 /\ id \in m.pendingRequests
       THEN [Settle(ClearCommandTimer(m, id), id, "resolved")
               EXCEPT !.pendingRequests = @ \ {id}]
       ELSE m

RECURSIVE dispatchLines(_, _)
dispatchLines(m, lines) ==
  IF lines = <<>> THEN m
  ELSE dispatchLines(dispatchLine(m, Head(lines)), Tail(lines))

\* sock.on("data", ...)
onDataEvent(m, sock, chunk) ==
  LET bytes == m.socks[sock].socketBuffer \o chunk
  IN dispatchLines([m EXCEPT !.socks[sock].socketBuffer = Rest(bytes, <<>>)],
                   Lines(bytes, <<>>))

\* ── Public API ─────────────────────────────────────────────────────────────

onDisconnect(m) == [m EXCEPT !.disconnectCallback = TRUE]

Live(m) == m.socket # NoSock /\ ~m.socks[m.socket].destroyed

isConnected(m) == m.state = "connected" /\ Live(m)

\* Mutant: the test never succeeds.
AlreadyConnected_never(m, deviceId) == FALSE

\* The "already connected to this exact device" test of connectToDevice.
AlreadyConnected(m, deviceId) ==
  m.state = "connected" /\ m.connectedDeviceId = deviceId /\ Live(m)

\* Mutant: connect leaves the notification to the close handler.
connectToDevice_noNotify(m, deviceId, envOk, cbThrows) ==
  LET m1 == clearAllTimers(m)
  IN IF AlreadyConnected(m1, deviceId)
       THEN [m1 EXCEPT !.log.result = "resolved"]
       ELSE
         LET m3 == initDevice(m1)
             m4 == [m3 EXCEPT !.targetDeviceId = deviceId]
             m5 == transitionToConnecting(m4, deviceId, envOk)
         IN IF ~adbForward(deviceId, envOk)
              THEN [m5 EXCEPT !.state = "waiting_for_device",
                              !.log.result = "rejected"]
              ELSE [m5 EXCEPT !.socks[m5.socket].waiter = TRUE,
                              !.socks[m5.socket].origin = "connect",
                              !.log.result = "pending"]

\* Mutant: the catch block does not set the safe state.
connectToDevice_noSafeState(m, deviceId, envOk, cbThrows) ==
  LET m1 == clearAllTimers(m)
  IN IF AlreadyConnected(m1, deviceId)
       THEN [m1 EXCEPT !.log.result = "resolved"]
       ELSE
         LET m2 == IF m1.state = "connected" THEN notifyDisconnect(m1, cbThrows) ELSE m1
             m3 == initDevice(m2)
             m4 == [m3 EXCEPT !.targetDeviceId = deviceId]
             m5 == transitionToConnecting(m4, deviceId, envOk)
         IN IF ~adbForward(deviceId, envOk)
              THEN [m5 EXCEPT !.log.result = "rejected"]
              ELSE [m5 EXCEPT !.socks[m5.socket].waiter = TRUE,
                              !.socks[m5.socket].origin = "connect",
                              !.log.result = "pending"]

\* Mutant: the promise resolves as soon as the socket starts connecting.
connectToDevice_resolveEarly(m, deviceId, envOk, cbThrows) ==
  LET m1 == clearAllTimers(m)
  IN IF AlreadyConnected(m1, deviceId)
       THEN [m1 EXCEPT !.log.result = "resolved"]
       ELSE
         LET m2 == IF m1.state = "connected" THEN notifyDisconnect(m1, cbThrows) ELSE m1
             m3 == initDevice(m2)
             m4 == [m3 EXCEPT !.targetDeviceId = deviceId]
             m5 == transitionToConnecting(m4, deviceId, envOk)
         IN IF ~adbForward(deviceId, envOk)
              THEN [m5 EXCEPT !.state = "waiting_for_device",
                              !.log.result = "rejected"]
              ELSE [m5 EXCEPT !.socks[m5.socket].origin = "connect",
                              !.log.result = "resolved"]

connectToDevice(m, deviceId, envOk, cbThrows) ==
  LET m1 == clearAllTimers(m)
  IN IF AlreadyConnected(m1, deviceId)
       THEN [m1 EXCEPT !.log.result = "resolved"]
       ELSE
         LET m2 == IF m1.state = "connected" THEN notifyDisconnect(m1, cbThrows) ELSE m1
             m3 == initDevice(m2)
             m4 == [m3 EXCEPT !.targetDeviceId = deviceId]
             m5 == transitionToConnecting(m4, deviceId, envOk)
         IN IF m2.log.thrown THEN m2
            ELSE IF ~adbForward(deviceId, envOk)
              THEN [m5 EXCEPT !.state = "waiting_for_device",
                              !.log.result = "rejected"]
              ELSE [m5 EXCEPT !.socks[m5.socket].waiter = TRUE,
                              !.socks[m5.socket].origin = "connect",
                              !.log.result = "pending"]

\* Mutant: shutdown leaves the timers scheduled.
shutdownDevice_keepTimers(m) ==
  LET m2 == destroyExistingSocket(m)
      m3 == rejectAllPending(m2, "shutdown")
      m4 == [m3 EXCEPT !.targetDeviceId = NoDev, !.state = "disconnected"]
  IN stopTracking(m4)

\* Mutant: shutdown does not reject the commands in flight.
shutdownDevice_noReject(m) ==
  LET m1 == clearAllTimers(m)
      m2 == destroyExistingSocket(m1)
      m4 == [m2 EXCEPT !.targetDeviceId = NoDev, !.state = "disconnected"]
  IN stopTracking(m4)

\* Mutant: shutdown reports a disconnect when it was connected.
shutdownDevice_notifies(m) ==
  LET m0 == IF m.state = "connected" THEN notifyDisconnect(m, FALSE) ELSE m
      m1 == clearAllTimers(m0)
      m2 == destroyExistingSocket(m1)
      m3 == rejectAllPending(m2, "shutdown")
      m4 == [m3 EXCEPT !.targetDeviceId = NoDev, !.state = "disconnected"]
  IN stopTracking(m4)

\* Mutant: shutdown leaves the target recorded.
shutdownDevice_keepsTarget(m) ==
  LET m1 == clearAllTimers(m)
      m2 == destroyExistingSocket(m1)
      m3 == rejectAllPending(m2, "shutdown")
      m4 == [m3 EXCEPT !.state = "disconnected"]
  IN stopTracking(m4)

shutdownDevice(m) ==
  LET m1 == clearAllTimers(m)
      m2 == destroyExistingSocket(m1)
      m3 == rejectAllPending(m2, "shutdown")
      m4 == [m3 EXCEPT !.targetDeviceId = NoDev, !.state = "disconnected"]
  IN stopTracking(m4)

FreeCmds(m) == {c \in CmdIds : m.cmds[c].status = "free"}

\* Mutant: the command is sent without a deadline timer.
sendCommand_noDeadline(m, writeThrows) ==
  IF ~Live(m) \/ m.state # "connected"
    THEN [m EXCEPT !.log.result = "not_connected"]
    ELSE LET id == CHOOSE c \in FreeCmds(m) : \A d \in FreeCmds(m) : c <= d
             m1 == [m EXCEPT !.cmds[id] = [status |-> "pending", timer |-> FALSE,
                                           settles |-> 0],
                             !.pendingRequests = @ \cup {id},
                             !.log.writes = @ + 1,
                             !.log.result = "pending"]
         IN IF writeThrows
              THEN [Settle(m1, id, "write_failed")
                      EXCEPT !.pendingRequests = @ \ {id}]
              ELSE m1

\* Mutant: the guard tests the socket only, not the state.
sendCommand_socketOnly(m, writeThrows) ==
  IF ~Live(m)
    THEN [m EXCEPT !.log.result = "not_connected"]
    ELSE LET id == CHOOSE c \in FreeCmds(m) : \A d \in FreeCmds(m) : c <= d
         IN [m EXCEPT !.cmds[id] = [status |-> "pending", timer |-> TRUE, settles |-> 0],
                      !.pendingRequests = @ \cup {id},
                      !.log.writes = @ + 1,
                      !.log.result = "pending"]

\* writeThrows: JSON.stringify or sock.write throws, and the catch block
\* clears the timer, deletes the entry and rejects.
sendCommand(m, writeThrows) ==
  IF ~Live(m) \/ m.state # "connected"
    THEN [m EXCEPT !.log.result = "not_connected"]
    ELSE LET id == CHOOSE c \in FreeCmds(m) : \A d \in FreeCmds(m) : c <= d
             m1 == [m EXCEPT !.cmds[id] = [status |-> "pending", timer |-> TRUE,
                                           settles |-> 0],
                             !.pendingRequests = @ \cup {id},
                             !.log.writes = @ + 1,
                             !.log.result = "pending"]
         IN IF writeThrows
              THEN [Settle(ClearCommandTimer(m1, id), id, "write_failed")
                      EXCEPT !.pendingRequests = @ \ {id}]
              ELSE m1

\* Mutant: the entry is not deleted.
onCommandTimer_keepEntry(m, id) ==
  Settle([m EXCEPT !.cmds[id].timer = FALSE], id, "timeout")

\* The deadline callback of one command.
onCommandTimer(m, id) ==
  Settle([m EXCEPT !.pendingRequests = @ \ {id}, !.cmds[id].timer = FALSE],
         id, "timeout")

\* ── Timer callbacks ────────────────────────────────────────────────────────

onRetryTimer(m, envOk) ==
  LET deviceId == m.retryTimer
      m1 == [m EXCEPT !.retryTimer = NoDev]
  IN IF m1.state # "waiting_for_device" THEN m1
     ELSE IF m1.targetDeviceId # deviceId THEN m1
     ELSE LET m2 == transitionToConnecting(m1, deviceId, envOk)
          IN IF ~adbForward(deviceId, envOk)
               THEN checkTrackerForDevice([m2 EXCEPT !.state = "waiting_for_device"])
               ELSE [m2 EXCEPT !.socks[m2.socket].origin = "retry"]

\* Mutant: the callback attempts the transition without its two tests.
onTrackerReconnectTimer_noGuards(m, envOk) ==
  LET deviceId == m.trackerReconnectTimer
      m1 == [m EXCEPT !.trackerReconnectTimer = NoDev]
      m2 == transitionToConnecting(m1, deviceId, envOk)
  IN IF ~adbForward(deviceId, envOk)
       THEN [m2 EXCEPT !.state = "waiting_for_device"]
       ELSE [m2 EXCEPT !.socks[m2.socket].origin = "tracker"]

onTrackerReconnectTimer(m, envOk) ==
  LET deviceId == m.trackerReconnectTimer
      m1 == [m EXCEPT !.trackerReconnectTimer = NoDev]
  IN IF m1.state # "waiting_for_device" THEN m1
     ELSE IF m1.targetDeviceId # deviceId THEN m1
     ELSE LET m2 == transitionToConnecting(m1, deviceId, envOk)
          IN IF ~adbForward(deviceId, envOk)
               THEN [m2 EXCEPT !.state = "waiting_for_device"]
               ELSE [m2 EXCEPT !.socks[m2.socket].origin = "tracker"]

\* ── adb-tracker.ts: device list diffing ────────────────────────────────────

\* The events processDeviceList emits for a snapshot.
DeviceEvents(known, updated) ==
  {[deviceId |-> d, state |-> updated[d], previous |-> known[d]] :
      d \in {x \in TrackedIds : updated[x] # NoDev /\ known[x] # updated[x]}}
  \cup
  {[deviceId |-> d, state |-> "offline", previous |-> known[d]] :
      d \in {x \in TrackedIds : known[x] # NoDev /\ updated[x] = NoDev}}

RECURSIVE emitEvents(_, _)
emitEvents(m, events) ==
  IF events = {} THEN m
  ELSE LET e == CHOOSE x \in events : TRUE
           m1 == [m EXCEPT !.log.events =
                    Append(@, [event |-> e, known |-> m.knownDevices])]
       IN emitEvents(handleTrackerEvent(m1, e), events \ {e})

\* Mutant: the mapping is replaced before the events are emitted.
processDeviceList_replaceFirst(m, updated) ==
  LET m0 == [m EXCEPT !.knownDevices = updated, !.log.snapshots = @ + 1]
  IN IF m.eventListener
       THEN emitEvents(m0, DeviceEvents(m.knownDevices, updated))
       ELSE m0

\* Mutant: an id the snapshot lacks is dropped without an event.
processDeviceList_noOffline(m, updated) ==
  LET m0 == [m EXCEPT !.log.snapshots = @ + 1]
      m1 == IF m.eventListener
              THEN emitEvents(m0, {e \in DeviceEvents(m.knownDevices, updated) :
                                     updated[e.deviceId] # NoDev})
              ELSE m0
  IN [m1 EXCEPT !.knownDevices = updated]

\* processDeviceList from the mapping it built of the payload on.
processDeviceList(m, updated) ==
  LET m0 == [m EXCEPT !.log.snapshots = @ + 1]
      m1 == IF m.eventListener
              THEN emitEvents(m0, DeviceEvents(m.knownDevices, updated))
              ELSE m0
  IN [m1 EXCEPT !.knownDevices = updated]

\* ── adb-tracker.ts: the track-devices stream ───────────────────────────────
\* The stream is a sequence of tokens, one token for one unit of
\* buffer.length: a hex digit, a letter of the status word, "-", "z" (a
\* character that is no hex digit), the tab, the newline, or a word (a serial
\* or a state), which parseInt cannot read as a digit.

TAB == "\t"
LF == "\n"
WhiteSpace == {TAB, LF}
HexDigits ==
  <<"0", "1", "2", "3", "4", "5", "6", "7", "8", "9", "A", "B", "C", "D", "E", "F">>
Okay == <<"O", "K", "A", "Y">>

\* buffer.slice(0, n) and buffer.slice(n), for 0 <= n
Take(text, n) == SubSeq(text, 1, IF n < Len(text) THEN n ELSE Len(text))
Drop(text, n) == SubSeq(text, n + 1, Len(text))

IsHex(t) == \E i \in 1..Len(HexDigits) : HexDigits[i] = t
HexValue(t) == (CHOOSE i \in 1..Len(HexDigits) : HexDigits[i] = t) - 1

RECURSIVE SkipWhiteSpace(_)
SkipWhiteSpace(text) ==
  IF text # <<>> /\ Head(text) \in WhiteSpace THEN SkipWhiteSpace(Tail(text))
  ELSE text

\* The digits parseInt reads: the longest run of hex digits at the start.
RECURSIVE HexRun(_)
HexRun(text) ==
  IF text # <<>> /\ IsHex(Head(text)) THEN <<Head(text)>> \o HexRun(Tail(text))
  ELSE <<>>

RECURSIVE HexNumber(_, _)
HexNumber(digits, acc) ==
  IF digits = <<>> THEN acc
  ELSE HexNumber(Tail(digits), 16 * acc + HexValue(Head(digits)))

\* parseInt(text, 16): leading white space is skipped, a sign is read, then
\* the longest run of hex digits; what follows the run is ignored, and the
\* result is NaN only when the run is empty. -0 is 0 here: it is neither NaN
\* nor < 0, and it slices like 0.
parseInt(text) ==
  LET t == SkipWhiteSpace(text)
      negative == t # <<>> /\ Head(t) = "-"
      digits == HexRun(IF negative THEN Tail(t) ELSE t)
  IN IF digits = <<>> THEN [nan |-> TRUE, value |-> 0]
     ELSE [nan |-> FALSE,
           value |-> IF negative THEN 0 - HexNumber(digits, 0)
                     ELSE HexNumber(digits, 0)]

\* payload.split("\n")
RECURSIVE SplitLines(_, _)
SplitLines(text, cur) ==
  IF text = <<>> THEN <<cur>>
  ELSE IF Head(text) = LF THEN <<cur>> \o SplitLines(Tail(text), <<>>)
  ELSE SplitLines(Tail(text), Append(cur, Head(text)))

RECURSIVE TrimEnd(_)
TrimEnd(text) ==
  IF text # <<>> /\ text[Len(text)] \in WhiteSpace
    THEN TrimEnd(SubSeq(text, 1, Len(text) - 1))
    ELSE text

\* line.trim()
Trim(text) == TrimEnd(SkipWhiteSpace(text))

\* trimmed.indexOf("\t"), counted from 1; 0 when there is none.
TabIndex(text) ==
  IF \E i \in 1..Len(text) : text[i] = TAB
    THEN CHOOSE i \in 1..Len(text) :
           text[i] = TAB /\ \A j \in 1..(i - 1) : text[j] # TAB
    ELSE 0

\* The string a slice of tokens is.
RECURSIVE Join(_)
Join(text) == IF text = <<>> THEN "" ELSE Head(text) \o Join(Tail(text))

\* updated.set(id, state) for the lines of the payload, in order. The mapping
\* follows the serials in TrackedIds; a line for another serial is left out.
RECURSIVE parseLines(_, _)
parseLines(lines, updated) ==
  IF lines = <<>> THEN updated
  ELSE LET trimmed == Trim(Head(lines))
           tabIndex == TabIndex(trimmed)
           id == Join(Take(trimmed, tabIndex - 1))
       IN parseLines(Tail(lines),
            IF tabIndex > 1 /\ id \in TrackedIds
              THEN [updated EXCEPT ![id] = Join(Drop(trimmed, tabIndex))]
              ELSE updated)

\* The mapping processDeviceList builds of a payload.
parseDeviceList(payload) == parseLines(SplitLines(payload, <<>>), NoDevices)

\* sock.destroy() of the held tracker socket: it emits no more data, so what
\* its buffer holds and the length it waits for are never read again.
destroyTracker(m) ==
  [m EXCEPT !.trackerConn =
     [NewConn EXCEPT !.destroyed = TRUE, !.receivedOkay = m.trackerConn.receivedOkay]]

\* Number.isNaN(payloadLength) || payloadLength < 0
Malformed(length) == length.nan \/ length.value < 0

\* The for (;;) loop of the data handler.
RECURSIVE frameLoop(_)
frameLoop(m) ==
  LET c == m.trackerConn
      length == parseInt(Take(c.buffer, PrefixLen))
      c1 == IF c.expectingLength
              THEN [c EXCEPT !.buffer = Drop(@, PrefixLen),
                             !.expectingLength = FALSE,
                             !.payloadLength = length.value]
              ELSE c
      c2 == [c1 EXCEPT !.buffer = Drop(@, c1.payloadLength),
                       !.expectingLength = TRUE]
  IN IF c.expectingLength /\ Len(c.buffer) < PrefixLen THEN m
     ELSE IF c.expectingLength /\ Malformed(length) THEN destroyTracker(m)
     ELSE IF Len(c1.buffer) < c1.payloadLength THEN [m EXCEPT !.trackerConn = c1]
     ELSE frameLoop(
            processDeviceList([m EXCEPT !.trackerConn = c2],
                              parseDeviceList(Take(c1.buffer, c1.payloadLength))))

\* sock.on("data", ...) of the tracker socket.
onTrackerData(m, chunk) ==
  LET c == [m.trackerConn EXCEPT !.buffer = @ \o chunk]
      c1 == [c EXCEPT !.buffer = Drop(@, PrefixLen)]
  IN IF c.receivedOkay THEN frameLoop([m EXCEPT !.trackerConn = c])
     ELSE IF Len(c.buffer) < PrefixLen THEN [m EXCEPT !.trackerConn = c]
     ELSE IF Take(c.buffer, PrefixLen) # Okay THEN destroyTracker(m)
     ELSE frameLoop([m EXCEPT !.trackerConn = [c1 EXCEPT !.receivedOkay = TRUE]])

\* ── What the runtime can deliver ───────────────────────────────────────────

\* 'connect': once, to a socket that is not destroyed.
CanConnect(sock) ==
  socks[sock].created /\ ~socks[sock].destroyed /\ ~socks[sock].opened

\* 'data': to a connected socket that is not destroyed.
CanData(sock) == socks[sock].opened /\ ~socks[sock].destroyed

\* 'close' (after 'error', if any): once, to a destroyed socket.
CanClose(sock) == socks[sock].created /\ socks[sock].destroyed

\* The turn that delivers 'error', if pending, and then 'close'.
closeTurn(m, sock, cbThrows) ==
  onCloseEvent(IF m.socks[sock].errPending THEN onErrorEvent(m, sock) ELSE m,
               sock, cbThrows)

\* ── Actions: one callback turn each ────────────────────────────────────────

\* A transition that reaches "new net.Socket()" needs a free socket id; the
\* socket it releases first stays in use until its 'close' is delivered.
CanCreate(deviceId, envOk) == adbForward(deviceId, envOk) => FreeSocks(Cur) # {}

\* connectToAdb makes a tracker socket; the released ones stay in use until
\* their 'close' is delivered.
CanTrack == trackerStale < MaxTrackerSocks

\* What one 'data' event carries: one or two tokens.
Chunks == {<<t>> : t \in Tokens} \cup {<<t, u>> : t \in Tokens, u \in Tokens}

Snapshots == [TrackedIds -> {NoDev} \cup TrackerStates]

OnDisconnect ==
  /\ ~disconnectCallback
  /\ Commit(onDisconnect(Cur))

ConnectToDevice ==
  \E deviceId \in DeviceIds, envOk \in BOOLEAN, cbThrows \in BOOLEAN :
    /\ \/ AlreadyConnected(Cur, deviceId)
       \/ CanCreate(deviceId, envOk) /\ (active \/ CanTrack)
    /\ Commit(connectToDevice(Cur, deviceId, envOk, cbThrows))

ShutdownDevice ==
  Commit(shutdownDevice(Cur))

SendCommand ==
  \E writeThrows \in BOOLEAN :
    /\ FreeCmds(Cur) # {}
    /\ Commit(sendCommand(Cur, writeThrows))

\* The deadline timer of command id fires.
CommandTimeoutOf(id) ==
  /\ cmds[id].timer
  /\ Commit(onCommandTimer(Cur, id))

CommandTimeout ==
  \E id \in CmdIds : CommandTimeoutOf(id)

\* The TCP handshake of a socket completes.
SockConnect ==
  \E sock \in SockIds :
    /\ CanConnect(sock)
    /\ Commit(onConnectEvent(Cur, sock))

\* The handshake deadline of a socket elapses.
ConnectTimeout ==
  \E sock \in SockIds :
    /\ socks[sock].connectTimer
    /\ Commit(onConnectTimer(Cur, sock))

\* The transport fails or the peer closes: the runtime destroys the socket.
SockFail ==
  \E sock \in SockIds, withError \in BOOLEAN :
    /\ socks[sock].created /\ ~socks[sock].destroyed
    /\ Commit([Cur EXCEPT !.socks[sock] = Destroy(@, withError)])

\* A destroyed socket emits 'close', preceded in the same tick by 'error' when
\* it was destroyed with an error.
SockClose ==
  \E sock \in SockIds, cbThrows \in BOOLEAN :
    /\ CanClose(sock)
    /\ Commit(closeTurn(Cur, sock, cbThrows))

SockData ==
  \E sock \in SockIds, chunk \in Chunks :
    /\ CanData(sock)
    /\ Len(Rest(socks[sock].socketBuffer \o chunk, <<>>)) <= MaxBuf
    /\ Commit(onDataEvent(Cur, sock, chunk))

RetryTimerFires ==
  \E envOk \in BOOLEAN :
    /\ retryTimer # NoDev
    /\ CanCreate(retryTimer, envOk)
    /\ Commit(onRetryTimer(Cur, envOk))

TrackerReconnectTimerFires ==
  \E envOk \in BOOLEAN :
    /\ trackerReconnectTimer # NoDev
    /\ CanCreate(trackerReconnectTimer, envOk)
    /\ Commit(onTrackerReconnectTimer(Cur, envOk))

\* The held tracker socket has delivered a whole frame: the data handler
\* calls processDeviceList with the mapping of its payload. The framing that
\* leads there is followed token by token in TrackerSpec.
TrackerSnapshot ==
  \E updated \in Snapshots :
    /\ trackerSocket = "live"
    /\ Commit(processDeviceList(Cur, updated))

\* The held tracker socket is gone: the connection to the adb server failed
\* or was refused, or the data handler destroyed the socket (FAIL status,
\* malformed length prefix); its 'error' or 'close' runs handleGone.
TrackerSockGone ==
  /\ trackerSocket = "live"
  /\ Commit(handleGone(Cur, TRUE))

TrackerStaleClose ==
  /\ trackerStale > 0
  /\ Commit(handleGone([Cur EXCEPT !.trackerStale = @ - 1], FALSE))

TrackerRetryTimerFires ==
  /\ trackerRetryTimer
  /\ CanTrack
  /\ Commit(onTrackerRetryTimer(Cur))

Next ==
  \/ OnDisconnect
  \/ ConnectToDevice
  \/ ShutdownDevice
  \/ SendCommand
  \/ CommandTimeout
  \/ SockConnect
  \/ ConnectTimeout
  \/ SockFail
  \/ SockClose
  \/ SockData
  \/ RetryTimerFires
  \/ TrackerReconnectTimerFires
  \/ TrackerSnapshot
  \/ TrackerSockGone
  \/ TrackerStaleClose
  \/ TrackerRetryTimerFires

Spec == Init /\ [][Next]_vars

\* ── The command layer over the Session, with the daemon always reachable ──
\* The turns that create, settle or strand a command: the API calls, the
\* events of the device sockets, the timers that act on a Session and the
\* tracker's snapshots. The tracker's own connection stays up, and no
\* disconnect callback is registered.
CommandNext ==
  \/ ConnectToDevice
  \/ ShutdownDevice
  \/ SendCommand
  \/ CommandTimeout
  \/ SockConnect
  \/ ConnectTimeout
  \/ SockFail
  \/ SockClose
  \/ SockData
  \/ RetryTimerFires
  \/ TrackerReconnectTimerFires
  \/ TrackerSnapshot
  \/ TrackerStaleClose

CommandSpec == Init /\ [][CommandNext]_vars

\* The runtime runs the callback of every deadline timer that is not cleared.
CommandLiveSpec == CommandSpec /\ \A id \in CmdIds : WF_vars(CommandTimeoutOf(id))

\* ── The tracker on its own, with its stream followed token by token ───────

\* A line of a device list.
Rec(id, deviceState) == <<id, TAB, deviceState, LF>>

\* What the daemon's socket may deliver in one 'data' event: the status word,
\* whole or split; length prefixes, whole, split, or malformed; device-list
\* lines; a frame in one piece; two empty frames in one piece.
WireChunks ==
  { Okay, <<"O", "K">>, <<"A", "Y">>, <<"F", "A", "I", "L">>,
    <<"0", "0", "0", "0">>, <<"0", "0", "0", "4">>, <<"0", "0", "0", "8">>,
    <<"0", "0">>, <<"0", "4">>,
    <<"z", "z", "z", "z">>, <<"-", "0", "0", "1">>, <<"0", "0", "z", "z">>,
    Rec("emu1", "device"), Rec("emu1", "offline"), Rec("emu2", "device"),
    <<"0", "0", "0", "4">> \o Rec("emu2", "offline"),
    <<"0", "0", "0", "0", "0", "0", "0", "0">> }

StartTracking ==
  /\ active \/ CanTrack
  /\ Commit(startTracking(Cur))

StopTracking ==
  /\ active \/ trackerStale > 0 \/ knownDevices = NoDevices
  /\ Commit(stopTracking(Cur))

TrackerData ==
  \E chunk \in WireChunks :
    /\ trackerSocket = "live" /\ ~trackerConn.destroyed
    /\ Len(trackerConn.buffer \o chunk) <= MaxWire
    /\ Commit(onTrackerData(Cur, chunk))

TrackerNext ==
  \/ StartTracking
  \/ StopTracking
  \/ TrackerData
  \/ TrackerSockGone
  \/ TrackerStaleClose
  \/ TrackerRetryTimerFires

TrackerSpec == Init /\ [][TrackerNext]_vars

\* The runtime runs the callback of a scheduled timer once its delay passed.
TrackerLiveSpec == TrackerSpec /\ WF_vars(TrackerRetryTimerFires)

\* ══ Claims ══════════════════════════════════════════════════════════════════
\* A claim about what a handler does is stated of the handler's result in
\* every reachable state in which the runtime can run that handler.

ConnectingOrConnected == state \in {"connecting", "connected"}

Superseded(sock) == socks[sock].created /\ socket # sock

SameMachine(r) ==
  /\ r.state = state
  /\ r.socket = socket
  /\ r.connectedDeviceId = connectedDeviceId
  /\ r.targetDeviceId = targetDeviceId
  /\ r.retryTimer = retryTimer
  /\ r.trackerReconnectTimer = trackerReconnectTimer
  /\ r.pendingRequests = pendingRequests
  /\ r.cmds = cmds
  /\ r.log.notified = 0
  /\ r.log.settled = {}
  /\ r.log.forwards = 0

\* C2: a superseded Session is destroyed, so the runtime delivers it no
\* connect and no data event; the events it still delivers (error and close,
\* the handshake deadline) change neither state nor the PendingCommand map
\* nor any other field of the machine, and do not invoke the disconnect
\* callback.
C2_StaleEventsInert ==
  \A sock \in SockIds :
    Superseded(sock) =>
      /\ ~CanConnect(sock) /\ ~CanData(sock)
      /\ CanClose(sock)
      /\ \A cbThrows \in BOOLEAN : SameMachine(closeTurn(Cur, sock, cbThrows))
      /\ socks[sock].connectTimer => SameMachine(onConnectTimer(Cur, sock))

\* A superseded Session awaits its close event while a newer one is
\* connected with a command in flight.
C2_Witness ==
  \E sock \in SockIds :
    /\ Superseded(sock)
    /\ state = "connected"
    /\ pendingRequests # {}

BothTimers ==
  /\ state = "waiting_for_device"
  /\ retryTimer # NoDev
  /\ trackerReconnectTimer # NoDev

Created(m) == {s \in SockIds : m.socks[s].created}

\* What one connecting transition is: one forwarding call, and one new
\* Session exactly when the forwarding succeeded.
OneTransition(r, deviceId, envOk) ==
  /\ r.log.forwards = 1
  /\ IF adbForward(deviceId, envOk)
       THEN /\ r.state = "connecting"
            /\ r.socket \notin Created(Cur)
            /\ Created(r) = Created(Cur) \cup {r.socket}
       ELSE /\ r.state = "waiting_for_device"
            /\ r.socket = NoSock
            /\ Created(r) = Created(Cur)

\* C3: with both timers scheduled in waiting_for_device, the one that fires
\* performs one connecting transition and leaves the other one cancelled:
\* afterwards neither timer is active, except for a TrackerReconnectTimer
\* that the retry callback scheduled anew after its forwarding failed.
C3_FirstTimerWins ==
  BothTimers =>
    \A envOk \in BOOLEAN :
      /\ CanCreate(retryTimer, envOk) =>
           LET r == onRetryTimer(Cur, envOk)
           IN /\ OneTransition(r, retryTimer, envOk)
              /\ r.retryTimer = NoDev
              /\ \/ r.trackerReconnectTimer = NoDev
                 \/ ~adbForward(retryTimer, envOk) /\ "tracker" \in r.log.scheduled
      /\ CanCreate(trackerReconnectTimer, envOk) =>
           LET r == onTrackerReconnectTimer(Cur, envOk)
           IN /\ OneTransition(r, trackerReconnectTimer, envOk)
              /\ r.retryTimer = NoDev
              /\ r.trackerReconnectTimer = NoDev

C3_Witness == BothTimers /\ FreeSocks(Cur) # {}

LiveSocks == {s \in SockIds : socks[s].created /\ ~socks[s].destroyed}

\* C4: at most one socket made by the state machine is not destroyed, and it
\* is the current Session.
C4_OneLiveSocket ==
  /\ Cardinality(LiveSocks) <= 1
  /\ LiveSocks \subseteq {socket}

\* A released Session still awaits its close event next to the live one.
C4_Witness ==
  /\ Cardinality(Created(Cur)) = 2
  /\ Cardinality(LiveSocks) = 1

NoTimers(r) == r.retryTimer = NoDev /\ r.trackerReconnectTimer = NoDev

\* C5: transitionToConnecting leaves both timers inactive, whether it
\* returns or throws, and so does every turn that enters it: a connect call,
\* the TrackerReconnectTimer callback, and the RetryTimer callback up to the
\* TrackerReconnectTimer it schedules itself after a failed forwarding.
C5_TimersInactiveAfterTransition ==
  \A envOk \in BOOLEAN :
    /\ \A deviceId \in DeviceIds :
         CanCreate(deviceId, envOk) =>
           /\ NoTimers(transitionToConnecting(Cur, deviceId, envOk))
           /\ \A cbThrows \in BOOLEAN :
                NoTimers(connectToDevice(Cur, deviceId, envOk, cbThrows))
    /\ retryTimer # NoDev /\ CanCreate(retryTimer, envOk) =>
         LET r == onRetryTimer(Cur, envOk)
         IN r.log.forwards = 1 =>
              /\ r.retryTimer = NoDev
              /\ \/ r.trackerReconnectTimer = NoDev
                 \/ ~adbForward(retryTimer, envOk) /\ "tracker" \in r.log.scheduled
    /\ trackerReconnectTimer # NoDev /\ CanCreate(trackerReconnectTimer, envOk) =>
         LET r == onTrackerReconnectTimer(Cur, envOk)
         IN r.log.forwards = 1 => NoTimers(r)

\* A RetryTimer is scheduled while the tracker reports the target present:
\* the transition cancels it, and a failed one schedules the tracker timer.
C5_Witness ==
  /\ retryTimer # NoDev
  /\ targetDeviceId \in TrackedIds
  /\ knownDevices[targetDeviceId] = "device"
  /\ FreeSocks(Cur) # {}

\* C6: when the socket of the connected Session closes, state becomes
\* waiting_for_device with a RetryTimer scheduled; a RetryTimer that fires
\* with a successful forwarding makes a new Session for the recorded target
\* in state connecting; and the handshake of the current Session makes state
\* connected with isConnected() true. No step of these is a connect call.
C6_ReconnectsAfterLoss ==
  /\ \A cbThrows \in BOOLEAN :
       state = "connected" /\ socket # NoSock /\ CanClose(socket) =>
         LET r == closeTurn(Cur, socket, cbThrows)
         IN /\ r.state = "waiting_for_device"
            /\ r.retryTimer = socks[socket].deviceId
            /\ r.retryTimer = r.targetDeviceId
            /\ "retry" \in r.log.scheduled
  /\ retryTimer # NoDev =>
       /\ state = "waiting_for_device"
       /\ retryTimer = targetDeviceId
       /\ CanCreate(retryTimer, TRUE) =>
            LET r == onRetryTimer(Cur, TRUE)
            IN /\ r.state = "connecting"
               /\ r.socket # NoSock
               /\ r.socks[r.socket].deviceId = targetDeviceId
               /\ ~r.socks[r.socket].destroyed
  /\ state = "connecting" /\ socket # NoSock /\ CanConnect(socket) =>
       LET r == onConnectEvent(Cur, socket)
       IN /\ r.state = "connected"
          /\ isConnected(r)
          /\ r.connectedDeviceId = targetDeviceId

\* Connected again through a Session the RetryTimer callback made.
C6_Witness ==
  /\ state = "connected"
  /\ isConnected(Cur)
  /\ socks[socket].origin = "retry"

\* C7: the close handler of the current Session rejects every
\* PendingCommand with the session-closed error, clears its deadline timer
\* and leaves the map empty; and no settled command keeps a map entry or a
\* deadline timer, so none is resolved or rejected again.
C7_LossRejectsAllPending ==
  /\ \A cbThrows \in BOOLEAN :
       socket # NoSock /\ CanClose(socket) =>
         LET r == closeTurn(Cur, socket, cbThrows)
         IN /\ r.pendingRequests = {}
            /\ r.log.settled = {<<id, "closed">> : id \in pendingRequests}
            /\ \A id \in pendingRequests :
                 /\ r.cmds[id].status = "settled"
                 /\ r.cmds[id].settles = 1
                 /\ ~r.cmds[id].timer
  /\ \A id \in CmdIds :
       /\ cmds[id].settles = 0
       /\ cmds[id].timer <=> id \in pendingRequests
       /\ id \in pendingRequests <=> cmds[id].status = "pending"

\* The connected Session is lost with two commands in flight.
C7_Witness ==
  /\ state = "connected"
  /\ socket # NoSock /\ CanClose(socket)
  /\ Cardinality(pendingRequests) = 2

\* A connect call whose forwarding setup throws.
ConnectThrows(r, deviceId) ==
  r.log.result = "rejected" =>
    r.state = "waiting_for_device" /\ r.targetDeviceId = deviceId /\ r.socket = NoSock

\* C8 as stated: whenever connect(targetId) fails, at forwarding setup or by
\* a close before the handshake completes, the state after the failure is
\* waiting_for_device with targetId recorded.
C8_FailureLeavesWaiting ==
  /\ \A deviceId \in DeviceIds, envOk \in BOOLEAN, cbThrows \in BOOLEAN :
       CanCreate(deviceId, envOk) =>
         ConnectThrows(connectToDevice(Cur, deviceId, envOk, cbThrows), deviceId)
  /\ \A sock \in SockIds, cbThrows \in BOOLEAN :
       CanClose(sock) /\ socks[sock].waiter =>
         LET r == closeTurn(Cur, sock, cbThrows)
         IN /\ r.log.result = "rejected"
            /\ r.state = "waiting_for_device"
            /\ r.targetDeviceId = socks[sock].deviceId

\* C8 amended: whenever connect(targetId) fails at forwarding setup, or by
\* the close before handshake of its Session while that is still the current
\* one, the state after the failure is waiting_for_device with targetId
\* recorded and no Session held; when its Session was superseded (by a later
\* connect or by shutdown), the rejection changes nothing.
C8_FailureLeavesWaitingUnlessSuperseded ==
  /\ \A deviceId \in DeviceIds, envOk \in BOOLEAN, cbThrows \in BOOLEAN :
       CanCreate(deviceId, envOk) =>
         ConnectThrows(connectToDevice(Cur, deviceId, envOk, cbThrows), deviceId)
  /\ \A sock \in SockIds, cbThrows \in BOOLEAN :
       CanClose(sock) /\ socks[sock].waiter =>
         LET r == closeTurn(Cur, sock, cbThrows)
         IN /\ r.log.result = "rejected"
            /\ IF socket = sock
                 THEN /\ r.state = "waiting_for_device"
                      /\ r.targetDeviceId = socks[sock].deviceId
                      /\ r.socket = NoSock
                 ELSE SameMachine(r)

\* The current Session of a pending connect call is destroyed before its
\* handshake: its close event will reject the call.
C8_Witness ==
  /\ state = "connecting"
  /\ socket # NoSock /\ CanClose(socket)
  /\ socks[socket].waiter

\* C9: a connect promise resolves only in a turn after which state is
\* connected, the connected device id is the id passed to connect and
\* isConnected() is true: in the connect handler of the Session it waits on,
\* or at once when already connected to that id. It is pending only while
\* the handshake of its Session has not completed.
C9_ResolvesWhenConnected ==
  /\ \A sock \in SockIds :
       /\ socks[sock].waiter => ~socks[sock].opened
       /\ CanConnect(sock) =>
            LET r == onConnectEvent(Cur, sock)
            IN /\ socks[sock].waiter => r.log.result = "resolved"
               /\ r.log.result = "resolved" =>
                    /\ r.state = "connected"
                    /\ r.socket = sock
                    /\ r.connectedDeviceId = socks[sock].deviceId
                    /\ isConnected(r)
  /\ \A deviceId \in DeviceIds, envOk \in BOOLEAN, cbThrows \in BOOLEAN :
       CanCreate(deviceId, envOk) =>
         LET r == connectToDevice(Cur, deviceId, envOk, cbThrows)
         IN /\ r.log.result = "resolved" =>
                 /\ r.state = "connected"
                 /\ r.connectedDeviceId = deviceId
                 /\ isConnected(r)
            /\ r.log.result = "pending" =>
                 /\ r.socks[r.socket].waiter
                 /\ r.socks[r.socket].deviceId = deviceId
                 /\ r.targetDeviceId = deviceId

\* A connect call is pending on the current Session, whose handshake can
\* complete.
C9_Witness ==
  /\ state = "connecting"
  /\ socket # NoSock /\ CanConnect(socket)
  /\ socks[socket].waiter

ConnectedTo(deviceId) ==
  /\ state = "connected"
  /\ connectedDeviceId = deviceId
  /\ socket # NoSock /\ ~socks[socket].destroyed

\* C10: connect(id) while connected to id with a live Session resolves and
\* changes nothing: same Session, state, TargetId, timers and
\* PendingCommands, no socket made or destroyed, no forwarding call, no
\* disconnect callback, no command settled.
C10_ConnectIdempotent ==
  \A deviceId \in DeviceIds, envOk \in BOOLEAN, cbThrows \in BOOLEAN :
    ConnectedTo(deviceId) =>
      LET r == connectToDevice(Cur, deviceId, envOk, cbThrows)
      IN /\ r.log.result = "resolved"
         /\ SameMachine(r)
         /\ r.socks = socks
         /\ r.targetDeviceId = deviceId

\* Connected with a command in flight and the disconnect callback registered.
C10_Witness ==
  /\ \E deviceId \in DeviceIds : ConnectedTo(deviceId)
  /\ pendingRequests # {}
  /\ disconnectCallback

\* Every state variable has in r the value it has now.
SameVars(r) ==
  /\ r.state = state /\ r.socket = socket
  /\ r.connectedDeviceId = connectedDeviceId /\ r.targetDeviceId = targetDeviceId
  /\ r.retryTimer = retryTimer /\ r.trackerReconnectTimer = trackerReconnectTimer
  /\ r.pendingRequests = pendingRequests /\ r.disconnectCallback = disconnectCallback
  /\ r.socks = socks /\ r.cmds = cmds
  /\ r.active = active /\ r.eventListener = eventListener
  /\ r.knownDevices = knownDevices
  /\ r.trackerSocket = trackerSocket /\ r.trackerStale = trackerStale
  /\ r.trackerConn = trackerConn
  /\ r.trackerRetryTimer = trackerRetryTimer

\* C11: sendCommand in a state other than connected rejects at once with the
\* not-connected error, creates no PendingCommand, starts no deadline timer,
\* writes to no socket and changes nothing else.
C11_NotConnectedRejects ==
  \A writeThrows \in BOOLEAN :
    state # "connected" /\ FreeCmds(Cur) # {} =>
      LET r == sendCommand(Cur, writeThrows)
      IN /\ r.log.result = "not_connected"
         /\ r.log.writes = 0
         /\ r.log.settled = {}
         /\ SameVars(r)

\* A live socket whose handshake has not completed: only the state test of
\* the guard rejects the command.
C11_Witness ==
  /\ state = "connecting"
  /\ socket # NoSock /\ ~socks[socket].destroyed
  /\ FreeCmds(Cur) # {}

\* The bytes a data event makes the handler split: buffer, then chunk.
Received(sock, chunk) == socks[sock].socketBuffer \o chunk

\* The commands in flight whose id is carried by a complete line of the bytes.
Answered(bytes) ==
  {c \in pendingRequests :
     \E i \in 1..Len(Lines(bytes, <<>>)) : Lines(bytes, <<>>)[i] = <<c>>}

\* C12: a data event resolves exactly the commands in flight whose id a
\* complete response line carries, each once, cancels their deadline timers
\* and removes their entries, whichever of the commands was sent first; the
\* other commands, the state and the Session are unchanged.
C12_ResponseResolvesItsCommand ==
  \A sock \in SockIds, chunk \in Chunks :
    CanData(sock) =>
      LET r == onDataEvent(Cur, sock, chunk)
          done == Answered(Received(sock, chunk))
      IN /\ r.log.settled = {<<c, "resolved">> : c \in done}
         /\ r.pendingRequests = pendingRequests \ done
         /\ \A c \in done :
              /\ r.cmds[c].status = "settled"
              /\ r.cmds[c].settles = 1
              /\ ~r.cmds[c].timer
         /\ \A c \in CmdIds \ done : r.cmds[c] = cmds[c]
         /\ r.state = state /\ r.socket = socket
         /\ r.socks[sock].socketBuffer = Rest(Received(sock, chunk), <<>>)

\* Two commands are in flight and the response to the second is buffered up
\* to its newline: it will be resolved before the first.
C12_Witness ==
  /\ pendingRequests = {1, 2}
  /\ socket # NoSock /\ CanData(socket)
  /\ socks[socket].socketBuffer = <<2>>

\* r with the line buffer of sock as it is now.
WithBufferOf(r, sock) ==
  [r EXCEPT !.socks[sock].socketBuffer = socks[sock].socketBuffer]

\* C13: a data event none of whose complete lines carries the id of a
\* command in flight (lines that do not parse, carry no id, or carry the id
\* of no entry of the map) settles nothing and changes no variable: only the
\* line buffer of its socket advances.
C13_UnmatchedFramesDropped ==
  \A sock \in SockIds, chunk \in Chunks :
    CanData(sock) /\ Answered(Received(sock, chunk)) = {} =>
      LET r == onDataEvent(Cur, sock, chunk)
      IN /\ r.log.settled = {}
         /\ r.log.notified = 0
         /\ SameVars(WithBufferOf(r, sock))

\* A command is in flight and the buffered response carries the id of
\* another command, which has no entry any more.
C13_Witness ==
  /\ socket # NoSock /\ CanData(socket)
  /\ pendingRequests = {2}
  /\ socks[socket].socketBuffer = <<1>>

\* r with the record and the map entry of command id as they are now.
WithCommandOf(r, id) ==
  [r EXCEPT !.cmds[id] = cmds[id], !.pendingRequests = pendingRequests]

\* C14: the deadline callback of a command rejects that command only, with
\* the timeout error, and removes its entry only: the Session, the state,
\* every other PendingCommand and every other deadline timer are unchanged.
C14_TimeoutRejectsOneCommand ==
  \A id \in CmdIds :
    cmds[id].timer =>
      LET r == onCommandTimer(Cur, id)
      IN /\ r.log.settled = {<<id, "timeout">>}
         /\ r.pendingRequests = pendingRequests \ {id}
         /\ r.cmds[id].status = "settled"
         /\ r.cmds[id].settles = 1
         /\ ~r.cmds[id].timer
         /\ r.log.notified = 0
         /\ SameVars(WithCommandOf(r, id))

\* Two commands wait for their responses on a live connected Session.
C14_Witness ==
  /\ isConnected(Cur)
  /\ pendingRequests = {1, 2}
  /\ cmds[1].timer /\ cmds[2].timer

\* C15: the turn that delivers the close event of a socket (after its error
\* event, if it has one) invokes the registered disconnect callback exactly
\* once when the socket is the current Session and state is connected, and
\* not at all otherwise; the socket delivers no event afterwards. State is
\* connected only for a Session whose handshake completed.
C15_CallbackOncePerLoss ==
  /\ \A sock \in SockIds, cbThrows \in BOOLEAN :
       CanClose(sock) =>
         LET r == closeTurn(Cur, sock, cbThrows)
         IN /\ r.log.notified =
                 IF sock = socket /\ state = "connected" /\ disconnectCallback
                   THEN 1 ELSE 0
            /\ ~r.socks[sock].created
  /\ socket # NoSock /\ ~socks[socket].destroyed =>
       (state = "connected" <=> socks[socket].opened)
  /\ state = "connected" => socket # NoSock

\* The connected Session failed with an error: both its error and its close
\* event are to be delivered, and a callback is registered.
C15_Witness ==
  /\ state = "connected"
  /\ socket # NoSock /\ CanClose(socket)
  /\ socks[socket].errPending
  /\ disconnectCallback

\* C16 as stated: a connect call with another target while connected does
\* not invoke the disconnect callback.
C16_NoCallbackOnSwitch ==
  \A deviceId \in DeviceIds, envOk \in BOOLEAN, cbThrows \in BOOLEAN :
    /\ state = "connected"
    /\ deviceId # connectedDeviceId
    /\ CanCreate(deviceId, envOk)
    => connectToDevice(Cur, deviceId, envOk, cbThrows).log.notified = 0

\* The calls of the registered callback a turn is to make.
CallbackCalls(called) == IF called /\ disconnectCallback THEN 1 ELSE 0

\* C16 amended: the disconnect callback is invoked once by the close turn of
\* the current Session when state is connected, once by a connect call made
\* while state is connected that is not for the connected device with a live
\* Session (a switch to another target included), and by nothing else:
\* not by shutdown, a timer callback, a tracker snapshot, a connect or data
\* event, or sendCommand.
C16_CallbackOnLossOrSwitch ==
  /\ \A deviceId \in DeviceIds, envOk \in BOOLEAN, cbThrows \in BOOLEAN :
       CanCreate(deviceId, envOk) =>
         connectToDevice(Cur, deviceId, envOk, cbThrows).log.notified =
           CallbackCalls(state = "connected" /\ ~ConnectedTo(deviceId))
  /\ \A sock \in SockIds, cbThrows \in BOOLEAN :
       CanClose(sock) =>
         closeTurn(Cur, sock, cbThrows).log.notified =
           CallbackCalls(sock = socket /\ state = "connected")
  /\ shutdownDevice(Cur).log.notified = 0
  /\ \A envOk \in BOOLEAN :
       /\ retryTimer # NoDev /\ CanCreate(retryTimer, envOk) =>
            onRetryTimer(Cur, envOk).log.notified = 0
       /\ trackerReconnectTimer # NoDev /\ CanCreate(trackerReconnectTimer, envOk) =>
            onTrackerReconnectTimer(Cur, envOk).log.notified = 0
  /\ \A updated \in Snapshots : processDeviceList(Cur, updated).log.notified = 0
  /\ \A sock \in SockIds :
       /\ CanConnect(sock) => onConnectEvent(Cur, sock).log.notified = 0
       /\ socks[sock].connectTimer => onConnectTimer(Cur, sock).log.notified = 0
       /\ \A chunk \in Chunks :
            CanData(sock) => onDataEvent(Cur, sock, chunk).log.notified = 0
  /\ \A id \in CmdIds : cmds[id].timer => onCommandTimer(Cur, id).log.notified = 0
  /\ \A writeThrows \in BOOLEAN :
       FreeCmds(Cur) # {} => sendCommand(Cur, writeThrows).log.notified = 0

\* Connected to emu1 with a live Session and a callback registered, and a
\* connect call for emu2 can make its socket.
C16_Witness ==
  /\ ConnectedTo("emu1")
  /\ disconnectCallback
  /\ CanCreate("emu2", TRUE)

\* The machine r at the start of its next turn.
NextTurn(r) == [r EXCEPT !.log = EmptyLog]

\* C17: a connect call with another device id while connected destroys and
\* releases the Session of the previous device, leaves state other than
\* connected, and invokes the registered callback exactly once; the close
\* turn of the released socket, run on the result, invokes it no more and
\* changes no variable but the socket's own record.
C17_SwitchNotifiesOnce ==
  \A deviceId \in DeviceIds, envOk \in BOOLEAN, cbThrows \in BOOLEAN :
    /\ state = "connected" /\ socket # NoSock
    /\ deviceId # connectedDeviceId
    /\ CanCreate(deviceId, envOk)
    => LET r == connectToDevice(Cur, deviceId, envOk, cbThrows)
           c == closeTurn(NextTurn(r), socket, cbThrows)
       IN /\ r.log.notified = CallbackCalls(TRUE)
          /\ r.socks[socket].destroyed
          /\ r.socket # socket
          /\ r.state # "connected" /\ ~isConnected(r)
          /\ r.targetDeviceId = deviceId
          /\ c.log.notified = 0
          /\ c.log.settled = {}
          /\ [c EXCEPT !.socks[socket] = r.socks[socket]] = NextTurn(r)

\* Connected to emu2 with a callback registered and a command in flight,
\* and a connect call for emu1 can make its socket.
C17_Witness ==
  /\ ConnectedTo("emu2")
  /\ disconnectCallback
  /\ pendingRequests # {}
  /\ CanCreate("emu1", TRUE)

\* C18: when the registered callback throws, no exception leaves
\* notifyDisconnect and the turn ends as it does when the callback returns:
\* the close turn of a connected Session with state waiting_for_device, the
\* RetryTimer scheduled and the TrackerReconnectTimer scheduled exactly when
\* the tracker knows the target as "device"; a connect call with its
\* forwarding call made and, when that succeeds, state connecting.
C18_CallbackExceptionContained ==
  /\ state = "connected" /\ socket # NoSock /\ CanClose(socket) /\ disconnectCallback =>
       LET r == closeTurn(Cur, socket, TRUE)
       IN /\ ~r.log.thrown
          /\ r.log.notified = 1
          /\ r.state = "waiting_for_device"
          /\ r.socket = NoSock
          /\ r.retryTimer = targetDeviceId
          /\ r.trackerReconnectTimer # NoDev <=>
               (targetDeviceId \in TrackedIds /\ knownDevices[targetDeviceId] = "device")
          /\ r = closeTurn(Cur, socket, FALSE)
  /\ \A deviceId \in DeviceIds, envOk \in BOOLEAN :
       /\ state = "connected" /\ ~ConnectedTo(deviceId) /\ disconnectCallback
       /\ CanCreate(deviceId, envOk)
       => LET r == connectToDevice(Cur, deviceId, envOk, TRUE)
          IN /\ ~r.log.thrown
             /\ r.log.notified = 1
             /\ r.log.forwards = 1
             /\ r.targetDeviceId = deviceId
             /\ adbForward(deviceId, envOk) =>
                  r.state = "connecting" /\ r.socket # NoSock /\ r.socket # socket
             /\ r = connectToDevice(Cur, deviceId, envOk, FALSE)

\* The connected Session is destroyed, a callback is registered and the
\* tracker knows the target as "device".
C18_Witness ==
  /\ state = "connected"
  /\ socket # NoSock /\ CanClose(socket)
  /\ disconnectCallback
  /\ targetDeviceId \in TrackedIds
  /\ knownDevices[targetDeviceId] = "device"

\* C19: shutdown, called in any state, leaves state disconnected, no Session
\* held and the one that was held destroyed, both timers inactive, every
\* command in flight rejected once with its deadline timer cleared and the
\* map empty, TargetId cleared, and the tracker stopped: not active, no
\* listener, no socket held, no retry scheduled, no device known.
C19_ShutdownReleasesEverything ==
  LET r == shutdownDevice(Cur)
  IN /\ r.state = "disconnected"
     /\ r.socket = NoSock
     /\ socket # NoSock => r.socks[socket].destroyed
     /\ \A sock \in SockIds : r.socks[sock].created => r.socks[sock].destroyed
     /\ NoTimers(r)
     /\ r.pendingRequests = {}
     /\ r.log.settled = {<<id, "shutdown">> : id \in pendingRequests}
     /\ \A id \in pendingRequests :
          /\ r.cmds[id].status = "settled"
          /\ r.cmds[id].settles = 1
          /\ ~r.cmds[id].timer
     /\ r.targetDeviceId = NoDev
     /\ ~r.active /\ ~r.eventListener
     /\ r.trackerSocket = "null" /\ ~r.trackerRetryTimer
     /\ r.knownDevices = NoDevices

\* Connected with a command in flight and the tracker's socket held.
C19_Witness ==
  /\ state = "connected"
  /\ socket # NoSock /\ ~socks[socket].destroyed
  /\ pendingRequests # {}
  /\ active /\ trackerSocket = "live"

\* The machine as shutdown leaves it: nothing held, nothing scheduled, the
\* tracker stopped, every socket that still exists destroyed.
ShutDown(m) ==
  /\ m.state = "disconnected"
  /\ m.socket = NoSock
  /\ m.targetDeviceId = NoDev
  /\ NoTimers(m)
  /\ ~m.active /\ ~m.eventListener
  /\ m.trackerSocket = "null" /\ ~m.trackerRetryTimer
  /\ \A sock \in SockIds : m.socks[sock].created => m.socks[sock].destroyed

\* A turn that starts no reconnection and keeps the machine shut down.
StaysShutDown(r) ==
  /\ ShutDown(r)
  /\ r.log.forwards = 0
  /\ r.log.scheduled = {}
  /\ r.log.notified = 0

\* C20: shutdown leaves the machine shut down, and from a shut-down machine
\* every turn other than a connect call keeps it so, with no forwarding
\* call and no timer scheduled: the late close of a released Session (which
\* changes nothing but its own socket's record), its handshake deadline, a
\* command deadline, sendCommand, the close of the released tracker socket,
\* and, were they delivered, a tracker snapshot, the tracker's retry timer
\* and either reconnect timer.
C20_NoReconnectAfterShutdown ==
  /\ ShutDown(NextTurn(shutdownDevice(Cur)))
  /\ ShutDown(Cur) =>
       /\ \A sock \in SockIds, cbThrows \in BOOLEAN :
            CanClose(sock) =>
              LET r == closeTurn(Cur, sock, cbThrows)
              IN /\ StaysShutDown(r)
                 /\ SameVars([r EXCEPT !.socks[sock] = socks[sock]])
       /\ \A sock \in SockIds :
            socks[sock].connectTimer => StaysShutDown(onConnectTimer(Cur, sock))
       /\ \A id \in CmdIds :
            cmds[id].timer => StaysShutDown(onCommandTimer(Cur, id))
       /\ \A writeThrows \in BOOLEAN :
            FreeCmds(Cur) # {} => StaysShutDown(sendCommand(Cur, writeThrows))
       /\ trackerStale > 0 =>
            StaysShutDown(handleGone([Cur EXCEPT !.trackerStale = @ - 1], FALSE))
       /\ \A updated \in Snapshots : StaysShutDown(processDeviceList(Cur, updated))
       /\ StaysShutDown(onTrackerRetryTimer(Cur))
       /\ \A envOk \in BOOLEAN :
            /\ StaysShutDown(onRetryTimer(Cur, envOk))
            /\ StaysShutDown(onTrackerReconnectTimer(Cur, envOk))
       /\ StaysShutDown(shutdownDevice(Cur))
       /\ StaysShutDown(onDisconnect(Cur))

\* Shut down while a Session was held: its socket and the tracker's socket
\* are released and their close events are still to come.
C20_Witness ==
  /\ ShutDown(Cur)
  /\ \E sock \in SockIds : CanClose(sock)
  /\ trackerStale > 0

KeepsTarget(r) == r.targetDeviceId = targetDeviceId

\* C21: connect sets TargetId to its argument, shutdown clears it, and no
\* other turn changes it: not the close of a Session (connected or not),
\* its connect event or handshake deadline, a data event, a command
\* deadline, sendCommand, either reconnect timer (whether its forwarding
\* succeeds or fails), a tracker snapshot, or the tracker's own handlers.
C21_TargetSetByConnectOnly ==
  /\ \A deviceId \in DeviceIds, envOk \in BOOLEAN, cbThrows \in BOOLEAN :
       CanCreate(deviceId, envOk) =>
         connectToDevice(Cur, deviceId, envOk, cbThrows).targetDeviceId = deviceId
  /\ shutdownDevice(Cur).targetDeviceId = NoDev
  /\ \A sock \in SockIds :
       /\ \A cbThrows \in BOOLEAN :
            CanClose(sock) => KeepsTarget(closeTurn(Cur, sock, cbThrows))
       /\ CanConnect(sock) => KeepsTarget(onConnectEvent(Cur, sock))
       /\ socks[sock].connectTimer => KeepsTarget(onConnectTimer(Cur, sock))
       /\ \A chunk \in Chunks :
            CanData(sock) => KeepsTarget(onDataEvent(Cur, sock, chunk))
  /\ \A id \in CmdIds : cmds[id].timer => KeepsTarget(onCommandTimer(Cur, id))
  /\ \A writeThrows \in BOOLEAN :
       FreeCmds(Cur) # {} => KeepsTarget(sendCommand(Cur, writeThrows))
  /\ \A envOk \in BOOLEAN :
       /\ retryTimer # NoDev /\ CanCreate(retryTimer, envOk) =>
            KeepsTarget(onRetryTimer(Cur, envOk))
       /\ trackerReconnectTimer # NoDev /\ CanCreate(trackerReconnectTimer, envOk) =>
            KeepsTarget(onTrackerReconnectTimer(Cur, envOk))
  /\ \A updated \in Snapshots : KeepsTarget(processDeviceList(Cur, updated))
  /\ \A held \in BOOLEAN : KeepsTarget(handleGone(Cur, held))
  /\ KeepsTarget(onTrackerRetryTimer(Cur))
  /\ KeepsTarget(onDisconnect(Cur))

\* The Session for emu2 is destroyed before its handshake completed.
C21_Witness ==
  /\ state = "connecting"
  /\ targetDeviceId = "emu2"
  /\ socket # NoSock /\ CanClose(socket)

\* A reconnect timer scheduled for deviceId whose callback will attempt the
\* transition.
AttemptDue(timer) ==
  /\ timer # NoDev
  /\ state = "waiting_for_device"
  /\ targetDeviceId = timer

\* A failed attempt as C22 describes it: nothing thrown, state
\* waiting_for_device, and a reconnect timer scheduled.
FailedAttemptRetries(r) ==
  /\ ~r.log.thrown
  /\ r.state = "waiting_for_device"
  /\ r.retryTimer # NoDev \/ r.trackerReconnectTimer # NoDev

\* C22: when the attempt of the RetryTimer or of the TrackerReconnectTimer
\* fails at forwarding setup, no error leaves the callback, state is
\* waiting_for_device and a next reconnection attempt is scheduled.
C22_FailedAttemptReschedules ==
  /\ AttemptDue(retryTimer) => FailedAttemptRetries(onRetryTimer(Cur, FALSE))
  /\ AttemptDue(trackerReconnectTimer) =>
       FailedAttemptRetries(onTrackerReconnectTimer(Cur, FALSE))

\* Only the TrackerReconnectTimer is scheduled, for a target the tracker
\* knows as "device".
C22_Witness ==
  /\ AttemptDue(trackerReconnectTimer)
  /\ retryTimer = NoDev
  /\ knownDevices[targetDeviceId] = "device"

\* C23: whenever the close handler of the current Session leaves state
\* waiting_for_device while the tracker's last known state of TargetId is
\* "device", a TrackerReconnectTimer for TargetId is scheduled in that turn.
C23_CloseConsultsTracker ==
  \A sock \in SockIds, cbThrows \in BOOLEAN :
    CanClose(sock) /\ socket = sock /\ ~socks[sock].cleanupCalled =>
      LET r == closeTurn(Cur, sock, cbThrows)
      IN r.state = "waiting_for_device"
           /\ getKnownDeviceState(r, r.targetDeviceId) = "device" =>
             /\ "tracker" \in r.log.scheduled
             /\ r.trackerReconnectTimer = r.targetDeviceId

\* The current Session is about to close before its handshake while the
\* tracker knows the target as "device".
C23_Witness ==
  /\ socket # NoSock
  /\ CanClose(socket)
  /\ state = "connecting"
  /\ targetDeviceId # NoDev
  /\ knownDevices[targetDeviceId] = "device"
  /\ trackerReconnectTimer = NoDev

\* C24: when the handshake deadline of the current Session elapses the
\* Session is force-closed and its close is handled as a close before connect:
\* the pending connect call rejects, state becomes waiting_for_device, the
\* disconnect callback is not invoked and no RetryTimer is scheduled. The
\* handshake cancels the deadline: no Session that has opened has a deadline
\* timer, so the timer never closes it.
C24_HandshakeDeadline ==
  /\ \A sock \in SockIds, cbThrows \in BOOLEAN :
       socks[sock].connectTimer /\ ~socks[sock].destroyed /\ socket = sock =>
         LET m1 == onConnectTimer(Cur, sock)
             r == closeTurn(NextTurn(m1), sock, cbThrows)
         IN /\ m1.socks[sock].destroyed
            /\ ~m1.socks[sock].connectTimer
            /\ SameMachine(m1)
            /\ r.state = "waiting_for_device"
            /\ r.socket = NoSock
            /\ r.log.notified = 0
            /\ r.retryTimer = NoDev
            /\ "retry" \notin r.log.scheduled
            /\ socks[sock].waiter => r.log.result = "rejected"
            /\ r.log.result # "resolved"
            /\ r = closeTurn([Cur EXCEPT !.socks[sock] = Destroy(@, TRUE)],
                             sock, cbThrows)
  /\ \A sock \in SockIds :
       /\ socks[sock].opened => ~socks[sock].connectTimer
       /\ CanConnect(sock) =>
            LET r == onConnectEvent(Cur, sock)
            IN r.socks[sock].opened /\ ~r.socks[sock].connectTimer
  /\ state = "connected" => ~socks[socket].connectTimer

\* The deadline of the current Session has elapsed before its handshake and
\* its close is still to be delivered to a waiting connect call.
C24_Witness ==
  /\ state = "connecting"
  /\ socket # NoSock
  /\ socks[socket].destroyed
  /\ socks[socket].errPending
  /\ ~socks[socket].connectTimer
  /\ socks[socket].waiter

\* A turn that schedules no RetryTimer.
NoRetryScheduled(r) ==
  /\ "retry" \notin r.log.scheduled
  /\ r.retryTimer \in {NoDev, retryTimer}

\* Waiting for the target with no Session and neither reconnect timer.
WaitingIdle(m) ==
  /\ m.state = "waiting_for_device"
  /\ m.targetDeviceId # NoDev
  /\ m.socket = NoSock
  /\ NoTimers(m)

\* A turn that starts no reconnection attempt and schedules none.
StaysIdle(r) ==
  /\ WaitingIdle(r)
  /\ r.targetDeviceId = targetDeviceId
  /\ r.log.forwards = 0
  /\ r.log.scheduled = {}

\* The snapshot makes the tracker emit a "device" event for the target.
DeviceEventForTarget(updated) ==
  /\ eventListener
  /\ targetDeviceId \in TrackedIds
  /\ updated[targetDeviceId] = "device"
  /\ knownDevices[targetDeviceId] # "device"

\* C25: a RetryTimer is scheduled only by the close turn of the current
\* Session in state connected. A connect call that fails at forwarding leaves
\* state waiting_for_device with TargetId recorded and neither timer active;
\* from a machine waiting like that, every turn keeps it waiting with no
\* forwarding call and no timer scheduled, except a tracker snapshot that
\* carries a "device" event for the target, a connect call, and shutdown
\* (which ends the waiting without an attempt).
C25_RetryOnlyAfterConnected ==
  /\ \A sock \in SockIds, cbThrows \in BOOLEAN :
       CanClose(sock) /\ ~(sock = socket /\ state = "connected") =>
         NoRetryScheduled(closeTurn(Cur, sock, cbThrows))
  /\ \A deviceId \in DeviceIds, envOk \in BOOLEAN, cbThrows \in BOOLEAN :
       CanCreate(deviceId, envOk) =>
         LET r == connectToDevice(Cur, deviceId, envOk, cbThrows)
         IN /\ NoRetryScheduled(r) /\ r.retryTimer = NoDev
            /\ ~ConnectedTo(deviceId) /\ ~adbForward(deviceId, envOk) =>
                 /\ r.log.result = "rejected"
                 /\ WaitingIdle(r)
                 /\ r.targetDeviceId = deviceId
                 /\ r.log.scheduled = {}
  /\ NoRetryScheduled(shutdownDevice(Cur))
  /\ NoRetryScheduled(onDisconnect(Cur))
  /\ NoRetryScheduled(onTrackerRetryTimer(Cur))
  /\ \A envOk \in BOOLEAN :
       /\ retryTimer # NoDev /\ CanCreate(retryTimer, envOk) =>
            NoRetryScheduled(onRetryTimer(Cur, envOk))
       /\ trackerReconnectTimer # NoDev /\ CanCreate(trackerReconnectTimer, envOk) =>
            NoRetryScheduled(onTrackerReconnectTimer(Cur, envOk))
  /\ \A updated \in Snapshots : NoRetryScheduled(processDeviceList(Cur, updated))
  /\ \A sock \in SockIds :
       /\ CanConnect(sock) => NoRetryScheduled(onConnectEvent(Cur, sock))
       /\ socks[sock].connectTimer => NoRetryScheduled(onConnectTimer(Cur, sock))
       /\ \A chunk \in Chunks :
            CanData(sock) => NoRetryScheduled(onDataEvent(Cur, sock, chunk))
  /\ \A id \in CmdIds : cmds[id].timer => NoRetryScheduled(onCommandTimer(Cur, id))
  /\ \A writeThrows \in BOOLEAN :
       FreeCmds(Cur) # {} => NoRetryScheduled(sendCommand(Cur, writeThrows))
  /\ WaitingIdle(Cur) =>
       /\ \A sock \in SockIds, cbThrows \in BOOLEAN :
            CanClose(sock) => StaysIdle(closeTurn(Cur, sock, cbThrows))
       /\ \A sock \in SockIds :
            /\ ~CanConnect(sock) /\ ~CanData(sock)
            /\ socks[sock].connectTimer => StaysIdle(onConnectTimer(Cur, sock))
       /\ \A id \in CmdIds : cmds[id].timer => StaysIdle(onCommandTimer(Cur, id))
       /\ \A writeThrows \in BOOLEAN :
            FreeCmds(Cur) # {} => StaysIdle(sendCommand(Cur, writeThrows))
       /\ StaysIdle(onDisconnect(Cur))
       /\ StaysIdle(onTrackerRetryTimer(Cur))
       /\ StaysIdle(handleGone(Cur, trackerSocket = "live"))
       /\ \A updated \in Snapshots :
            ~DeviceEventForTarget(updated) => StaysIdle(processDeviceList(Cur, updated))
       /\ LET r == shutdownDevice(Cur)
          IN r.log.forwards = 0 /\ r.log.scheduled = {} /\ NoTimers(r)

\* A connect call has failed at forwarding: the machine waits for emu1, which
\* the tracker knows as "device", with neither timer scheduled.
C25_Witness ==
  /\ WaitingIdle(Cur)
  /\ targetDeviceId = "emu1"
  /\ knownDevices["emu1"] = "device"
  /\ \A sock \in SockIds : ~socks[sock].created

\* ── The tracker's claims (TrackerSpec) ─────────────────────────────────────

WireStates == {"device", "offline"}

\* The device lists a snapshot may carry: no serial twice.
DeviceLists ==
  {<<>>}
  \cup {<<<<id, st>>>> : id \in TrackedIds, st \in WireStates}
  \cup {list \in {<<<<id1, st1>>, <<id2, st2>>>> :
                     id1 \in TrackedIds, id2 \in TrackedIds,
                     st1 \in WireStates, st2 \in WireStates} :
          list[1][1] # list[2][1]}

\* The payload the daemon sends for a device list.
RECURSIVE Encode(_)
Encode(list) ==
  IF list = <<>> THEN <<>>
  ELSE Rec(Head(list)[1], Head(list)[2]) \o Encode(Tail(list))

\* The state a device list gives for id, NoDev when it does not list it.
StateIn(list, id) ==
  IF \E i \in 1..Len(list) : list[i][1] = id
    THEN list[CHOOSE i \in 1..Len(list) : list[i][1] = id][2]
    ELSE NoDev

\* The tracker handling the snapshot that carries the list.
AfterSnapshot(list) == processDeviceList(Cur, parseDeviceList(Encode(list)))

EventsFor(r, id) ==
  {i \in 1..Len(r.log.events) : r.log.events[i].event.deviceId = id}

\* Exactly one event was emitted for id, and it is e.
EmittedOnce(r, id, e) ==
  /\ Cardinality(EventsFor(r, id)) = 1
  /\ \A i \in EventsFor(r, id) : r.log.events[i].event = e

\* C26: for each snapshot the tracker emits, computed against the mapping
\* stored before the snapshot, one event {id, newState, previousState} for
\* every id of the snapshot whose state differs from the stored one or that
\* was not stored (previousState null), one event {id, "offline",
\* previousState} for every id stored that the snapshot lacks, and no event
\* for any other id; without a listener it emits none.
C26_DiffEvents ==
  \A list \in DeviceLists :
    LET r == AfterSnapshot(list)
    IN /\ ~eventListener => r.log.events = <<>>
       /\ eventListener =>
            \A id \in TrackedIds :
              LET new == StateIn(list, id)
                  old == knownDevices[id]
              IN IF new # NoDev /\ new # old
                   THEN EmittedOnce(r, id,
                          [deviceId |-> id, state |-> new, previous |-> old])
                 ELSE IF new = NoDev /\ old # NoDev
                   THEN EmittedOnce(r, id,
                          [deviceId |-> id, state |-> "offline", previous |-> old])
                 ELSE EventsFor(r, id) = {}

\* The tracker has stored emu1 as "offline" and emu2 as "device" from a
\* frame and waits for the next one: a snapshot now finds ids changed,
\* unchanged and gone.
C26_Witness ==
  /\ eventListener
  /\ trackerSocket = "live"
  /\ trackerConn.receivedOkay /\ trackerConn.expectingLength
  /\ knownDevices["emu1"] = "offline"
  /\ knownDevices["emu2"] = "device"

\* C27: while the diff events of a snapshot are emitted the stored mapping is
\* still the one of before the snapshot, and once the snapshot is processed
\* getKnownDeviceState(id) is the state the snapshot gives for id and
\* undefined for every id it does not list.
C27_MappingReplacedAfterDiff ==
  \A list \in DeviceLists :
    LET r == AfterSnapshot(list)
    IN /\ \A i \in 1..Len(r.log.events) : r.log.events[i].known = knownDevices
       /\ \A id \in DeviceIds : getKnownDeviceState(r, id) = StateIn(list, id)

\* A frame listing emu2 alone was processed after emu1 had been stored:
\* emu1 is undefined again, and the listener is there for the next diff.
C27_Witness ==
  /\ eventListener
  /\ trackerConn.receivedOkay
  /\ trackerConn.buffer = <<>>
  /\ knownDevices["emu1"] = NoDev
  /\ knownDevices["emu2"] = "device"

\* The tracker's connection dropped and no new one was opened yet.
Dropped == active /\ trackerSocket = "null"

\* C28 as stated: from the drop of the tracker's connection until the next
\* snapshot, getKnownDeviceState(id) is undefined for every id.
C28_MappingClearedAtDrop ==
  Dropped => \A id \in DeviceIds : getKnownDeviceState(Cur, id) = NoDev

\* C28 amended: the drop itself leaves the mapping as the last snapshot made
\* it; the mapping is cleared when the retry timer's callback opens the next
\* connection, and by stopTracking. So a connection that has not yet got its
\* status word has an empty mapping, only a processed frame changes the
\* mapping of a connection, and the mapping is empty whenever tracking is
\* not active.
C28_MappingClearedAtReconnect ==
  /\ trackerSocket = "live" =>
       LET r == handleGone(Cur, TRUE)
       IN r.knownDevices = knownDevices /\ r.trackerSocket = "null"
  /\ trackerRetryTimer =>
       LET r == onTrackerRetryTimer(Cur)
       IN r.knownDevices = NoDevices /\ r.trackerSocket = "live"
  /\ stopTracking(Cur).knownDevices = NoDevices
  /\ ~active => knownDevices = NoDevices
  /\ trackerSocket = "live" /\ ~trackerConn.receivedOkay => knownDevices = NoDevices
  /\ \A chunk \in WireChunks :
       trackerSocket = "live" /\ ~trackerConn.destroyed =>
         LET r == onTrackerData(Cur, chunk)
         IN r.log.snapshots = 0 => r.knownDevices = knownDevices

\* The connection dropped after a snapshot listed emu1: until the retry
\* timer fires the tracker still answers "device" for emu1.
C28_Witness ==
  /\ Dropped
  /\ trackerRetryTimer
  /\ getKnownDeviceState(Cur, "emu1") = "device"

\* A turn of the tracker that sets no retry timer.
NoTrackerRetry(r) ==
  /\ r.log.trackerRetries = 0
  /\ r.trackerRetryTimer => trackerRetryTimer

\* What holds of the tracker's retrying in every state: a held socket and a
\* scheduled retry timer exclude each other, and with tracking active one of
\* them is there; the drop of the held socket schedules the timer once and a
\* second event of that socket, like the close of a released socket,
\* schedules nothing; the timer's callback opens a connection while none is
\* held, every released socket being destroyed.
OneRetryPerDrop ==
  /\ ~(trackerSocket = "live" /\ trackerRetryTimer)
  /\ active => trackerSocket = "live" \/ trackerRetryTimer
  /\ ~active => trackerSocket = "null" /\ ~trackerRetryTimer
  /\ active /\ trackerSocket = "live" =>
       LET r == handleGone(Cur, TRUE)
           again == handleGone(NextTurn(r), FALSE)
       IN /\ r.trackerSocket = "null"
          /\ r.trackerRetryTimer
          /\ r.log.trackerRetries = 1
          /\ again.log.trackerRetries = 0
          /\ again.trackerRetryTimer /\ again.trackerSocket = "null"
  /\ NoTrackerRetry(handleGone(Cur, FALSE))
  /\ \A chunk \in WireChunks :
       trackerSocket = "live" /\ ~trackerConn.destroyed =>
         NoTrackerRetry(onTrackerData(Cur, chunk))
  /\ trackerRetryTimer =>
       LET r == onTrackerRetryTimer(Cur)
       IN /\ r.trackerSocket = "live" /\ ~r.trackerConn.destroyed
          /\ ~r.trackerRetryTimer
          /\ r.trackerStale = trackerStale
          /\ r.log.trackerRetries = 0

\* C29: while tracking is active every drop of the tracker's connection
\* schedules exactly one reconnect, whether the socket reports it by error,
\* close or both, and the tracker eventually holds a new connection (unless
\* tracking is stopped); there are never a retry timer and a held socket at
\* once, so never two timers or two live sockets.
C29_TrackerKeepsRetrying ==
  /\ []OneRetryPerDrop
  /\ Dropped ~> (trackerSocket = "live" \/ ~active)

\* The daemon refused the first connection before any snapshot: nothing is
\* held and the retry is scheduled.
C29_Witness ==
  /\ Dropped
  /\ trackerRetryTimer
  /\ ~trackerConn.receivedOkay
  /\ knownDevices = NoDevices

\* The tracker's buffer once the chunk is added to it.
Arrived(chunk) == trackerConn.buffer \o chunk

CanTrackerData == trackerSocket = "live" /\ ~trackerConn.destroyed

\* The data handler reads a length prefix first thing when the chunk arrives.
PrefixDue(chunk) ==
  /\ CanTrackerData
  /\ trackerConn.receivedOkay /\ trackerConn.expectingLength
  /\ Len(Arrived(chunk)) >= PrefixLen

FourHexDigits(text) ==
  Len(text) = PrefixLen /\ \A i \in 1..PrefixLen : IsHex(text[i])

\* The turn destroyed the socket having processed no snapshot, and the close
\* of the socket schedules the retry.
ClosedUnread(r) ==
  /\ r.trackerConn.destroyed
  /\ r.log.snapshots = 0 /\ r.log.events = <<>>
  /\ r.knownDevices = knownDevices
  /\ LET gone == handleGone(NextTurn(r), TRUE)
     IN gone.trackerRetryTimer /\ gone.log.trackerRetries = 1

\* A prefix that parses to NaN or to a negative number closes the connection.
RejectedPrefixCloses ==
  \A chunk \in WireChunks :
    PrefixDue(chunk) /\ Malformed(parseInt(Take(Arrived(chunk), PrefixLen))) =>
      ClosedUnread(onTrackerData(Cur, chunk))

\* A prefix that is not four hex digits closes the connection.
NonHexPrefixCloses ==
  \A chunk \in WireChunks :
    PrefixDue(chunk) /\ ~FourHexDigits(Take(Arrived(chunk), PrefixLen)) =>
      ClosedUnread(onTrackerData(Cur, chunk))

\* The loop ends, having read a length prefix for every frame it processed
\* but the one whose prefix an earlier turn had read.
LoopTerminates ==
  \A chunk \in WireChunks :
    CanTrackerData =>
      onTrackerData(Cur, chunk).log.snapshots <=
        Len(Arrived(chunk)) \div PrefixLen
          + (IF trackerConn.expectingLength THEN 0 ELSE 1)

\* C30: in the streaming phase a malformed length prefix (not four hex
\* digits, or negative after the parse) makes the data handler close the
\* connection without processing a snapshot, the close schedules the retry,
\* and the frame-parsing loop terminates for every buffer.
C30_MalformedPrefixCloses ==
  /\ RejectedPrefixCloses
  /\ NonHexPrefixCloses
  /\ LoopTerminates

\* The tracker has stored emu1 as "device" and waits for the next length
\* prefix with an empty buffer.
C30_Witness ==
  /\ CanTrackerData
  /\ trackerConn.receivedOkay /\ trackerConn.expectingLength
  /\ trackerConn.buffer = <<>>
  /\ knownDevices["emu1"] = "device"
  /\ knownDevices["emu2"] = NoDev

\* The tracker's connection, mapping and timer are as before the turn, and
\* the turn set no tracker timer.
SameTracker(r) ==
  /\ r.active = active
  /\ r.trackerSocket = trackerSocket
  /\ r.trackerStale = trackerStale
  /\ r.trackerConn = trackerConn
  /\ r.knownDevices = knownDevices
  /\ r.trackerRetryTimer = trackerRetryTimer
  /\ r.log.trackerRetries = 0

\* C31: startTracking while tracking is active only sets the listener: no
\* connection is opened or released, the known-device mapping and the retry
\* timer are as before; a second call changes nothing the first did not; and
\* every connect call made while tracking is active leaves the tracker's
\* connection as it is.
C31_StartTrackingIdempotent ==
  /\ active =>
       LET r == startTracking(Cur)
       IN /\ SameTracker(r)
          /\ r.eventListener
          /\ SameVars([r EXCEPT !.eventListener = eventListener])
          /\ r.log = EmptyLog
  /\ active \/ CanTrack =>
       LET r == NextTurn(startTracking(Cur))
       IN startTracking(r) = r
  /\ \A deviceId \in DeviceIds, envOk \in BOOLEAN, cbThrows \in BOOLEAN :
       active /\ CanCreate(deviceId, envOk) =>
         SameTracker(connectToDevice(Cur, deviceId, envOk, cbThrows))

\* Tracking is active with a snapshot stored, the machine is connected to
\* emu1, and a connect call for emu2 can make its socket: that call runs
\* startTracking again.
C31_Witness ==
  /\ active /\ trackerSocket = "live"
  /\ knownDevices["emu1"] = "device"
  /\ ConnectedTo("emu1")
  /\ CanCreate("emu2", TRUE)
  /\ trackerStale = 0

\* The sockets that exist and are not destroyed.
OpenSocks(m) == {s \in SockIds : m.socks[s].created /\ ~m.socks[s].destroyed}

\* The call with the malformed id rejects, runs no external command and
\* opens no socket.
MalformedIdRunsNothing ==
  \A envOk \in BOOLEAN, cbThrows \in BOOLEAN :
    LET r == connectToDevice(Cur, BadId, envOk, cbThrows)
    IN /\ r.log.result = "rejected"
       /\ r.log.execs = 0
       /\ OpenSocks(r) \subseteq OpenSocks(Cur)

\* The call with the malformed id leaves the Session that exists alone.
MalformedIdKeepsSession ==
  \A envOk \in BOOLEAN, cbThrows \in BOOLEAN :
    LET r == connectToDevice(Cur, BadId, envOk, cbThrows)
    IN r.socket = socket /\ OpenSocks(r) = OpenSocks(Cur)

\* C32: a connect call with a malformed target id is rejected before any
\* I/O: the external forwarding command is not run, no socket is opened, and
\* the Session that exists is not released.
C32_MalformedIdBeforeIO == MalformedIdRunsNothing /\ MalformedIdKeepsSession

\* A connect call with the malformed id was made while a Session for emu1
\* was held: the machine waits for the malformed id and the released socket
\* has its close still to come.
C32_Witness ==
  /\ targetDeviceId = BadId
  /\ state = "waiting_for_device"
  /\ socket = NoSock
  /\ \E sock \in SockIds : CanClose(sock) /\ socks[sock].deviceId = "emu1"

\* What destroyExistingSocket released in the turn was released with the
\* Session reference already null, and the close handler of a released
\* socket, run on the machine the turn leaves, takes the stale path: it
\* changes nothing but that socket's record and calls no callback.
ReleasedAfterNull(r) ==
  \A e \in r.log.released :
    /\ e.current = NoSock
    /\ r.socks[e.sock].destroyed
    /\ StaleSocket(r, e.sock)
    /\ \A cbThrows \in BOOLEAN :
         LET c == closeTurn(NextTurn(r), e.sock, cbThrows)
         IN /\ [c EXCEPT !.socks[e.sock] = r.socks[e.sock],
                          !.log = EmptyLog] = NextTurn(r)
            /\ c.log.notified = 0 /\ c.log.scheduled = {} /\ c.log.settled = {}

\* C33: in every path that discards a Session (a connect call, either
\* reconnect timer's callback, shutdown) the reference is null when the old
\* socket is destroyed, so the socket's close handler finds a current
\* reference other than itself; and a live current Session is released by
\* each of these paths.
C33_NullBeforeDestroy ==
  /\ ReleasedAfterNull(shutdownDevice(Cur))
  /\ socket # NoSock /\ ~socks[socket].destroyed =>
       shutdownDevice(Cur).log.released = {[sock |-> socket, current |-> NoSock]}
  /\ \A deviceId \in DeviceIds, envOk \in BOOLEAN, cbThrows \in BOOLEAN :
       CanCreate(deviceId, envOk) =>
         ReleasedAfterNull(connectToDevice(Cur, deviceId, envOk, cbThrows))
  /\ \A envOk \in BOOLEAN :
       /\ retryTimer # NoDev /\ CanCreate(retryTimer, envOk) =>
            ReleasedAfterNull(onRetryTimer(Cur, envOk))
       /\ trackerReconnectTimer # NoDev /\ CanCreate(trackerReconnectTimer, envOk) =>
            ReleasedAfterNull(onTrackerReconnectTimer(Cur, envOk))

\* A connecting transition released the Session that was current: the old
\* socket is destroyed without an error, its close is still to come, and the
\* reference holds the new socket.
C33_Witness ==
  /\ state = "connecting" /\ socket # NoSock
  /\ \E sock \in SockIds :
       /\ CanClose(sock) /\ socket # sock
       /\ ~socks[sock].errPending /\ ~socks[sock].cleanupCalled

\* The states the disconnect callback observed in the close turn of a socket.
ObservedAtLoss(sock, cbThrows) == closeTurn(Cur, sock, cbThrows).log.observed

\* C34 as stated: when the close handler calls the disconnect callback,
\* state is already waiting_for_device; the callback never observes
\* state = connected.
C34_CallbackSeesWaiting ==
  \A sock \in SockIds, cbThrows \in BOOLEAN :
    CanClose(sock) =>
      \A o \in ObservedAtLoss(sock, cbThrows) : o.state # "connected"

\* C34 amended: when the close handler calls the disconnect callback, the
\* Session reference is already null and every pending command is rejected,
\* while state is still connected; the handler sets state =
\* waiting_for_device after the callback returns or throws, in the same turn.
C34_CallbackSeesSessionGone ==
  \A sock \in SockIds, cbThrows \in BOOLEAN :
    CanClose(sock) =>
      LET r == closeTurn(Cur, sock, cbThrows)
      IN /\ r.log.observed \subseteq {[state |-> "connected", socket |-> NoSock]}
         /\ r.log.notified > 0 =>
              /\ r.log.observed # {}
              /\ r.state = "waiting_for_device"
              /\ r.pendingRequests = {}
              /\ ~r.log.thrown

\* The connected Session is lost, a callback is registered and a command is
\* in flight: the close turn is due.
C34_Witness ==
  /\ state = "connected" /\ disconnectCallback
  /\ socket # NoSock /\ CanClose(socket) /\ socks[socket].errPending
  /\ pendingRequests # {}

\* A socket whose close handler would run its cleanup: its close is due, the
\* cleanup has not run and the socket is the current Session.
CurrentClosing(sock) ==
  /\ CanClose(sock) /\ ~socks[sock].cleanupCalled /\ ~StaleSocket(Cur, sock)

\* C35: state = disconnected exactly when no target is recorded, so the
\* target is set in connecting, connected and waiting_for_device; and the
\* close handler of a current Session always finds a target recorded and
\* leaves waiting_for_device, never disconnected.
C35_DisconnectedIffNoTarget ==
  /\ state = "disconnected" <=> targetDeviceId = NoDev
  /\ \A sock \in SockIds, cbThrows \in BOOLEAN :
       CurrentClosing(sock) =>
         /\ targetDeviceId # NoDev
         /\ closeTurn(Cur, sock, cbThrows).state = "waiting_for_device"
         /\ closeTurn(Cur, sock, cbThrows).targetDeviceId = targetDeviceId

\* A Session whose handshake is still pending is about to close as the
\* current one, with the target recorded.
C35_Witness ==
  /\ state = "connecting" /\ targetDeviceId # NoDev
  /\ socket # NoSock /\ CurrentClosing(socket)

\* A turn that leaves every reconnect timer it armed in its variable, and
\* leaves one armed only in waiting_for_device with a target recorded.
TimersHeld(r) ==
  /\ r.log.orphaned = 0
  /\ r.retryTimer # NoDev \/ r.trackerReconnectTimer # NoDev =>
       r.state = "waiting_for_device" /\ r.targetDeviceId # NoDev
  /\ "retry" \in r.log.scheduled => r.retryTimer # NoDev
  /\ "tracker" \in r.log.scheduled => r.trackerReconnectTimer # NoDev

\* C36: a RetryTimer or TrackerReconnectTimer is active only in state
\* waiting_for_device with a target recorded; each is held in one variable,
\* and every turn that schedules one again clears the earlier instance, so
\* at most one instance of each is running.
C36_TimersOnlyWhileWaiting ==
  /\ TimersHeld(Cur)
  /\ \A sock \in SockIds, cbThrows \in BOOLEAN :
       CanClose(sock) => TimersHeld(closeTurn(Cur, sock, cbThrows))
  /\ \A updated \in Snapshots :
       trackerSocket = "live" => TimersHeld(processDeviceList(Cur, updated))
  /\ \A envOk \in BOOLEAN :
       /\ retryTimer # NoDev /\ CanCreate(retryTimer, envOk) =>
            TimersHeld(onRetryTimer(Cur, envOk))
       /\ trackerReconnectTimer # NoDev /\ CanCreate(trackerReconnectTimer, envOk) =>
            TimersHeld(onTrackerReconnectTimer(Cur, envOk))
       /\ \A deviceId \in DeviceIds, cbThrows \in BOOLEAN :
            CanCreate(deviceId, envOk) =>
              TimersHeld(connectToDevice(Cur, deviceId, envOk, cbThrows))

\* A TrackerReconnectTimer is running and the tracker is about to report the
\* target present again: the timer is scheduled a second time.
C36_Witness ==
  /\ state = "waiting_for_device" /\ trackerReconnectTimer # NoDev
  /\ trackerSocket = "live"
  /\ \E updated \in Snapshots : DeviceEventForTarget(updated)

\* The callback of a timer scheduled for deviceId has nothing to do: the
\* state is not waiting_for_device or the target is another one.
GuardsFail(deviceId) ==
  state # "waiting_for_device" \/ targetDeviceId # deviceId

\* The turn started a connecting transition.
Attempted(r) == r.log.forwards > 0

\* C37: a reconnect timer's callback starts a connecting transition only in
\* waiting_for_device and only for the recorded target; run for any other
\* id or in any other state (as a callback scheduled earlier would be) it
\* only nulls its variable. A tracker event starts no transition itself and
\* schedules the TrackerReconnectTimer only when it reports the recorded
\* target in state 'device' while waiting_for_device; any other event
\* changes nothing.
C37_AutonomousReconnectGuarded ==
  /\ \A deviceId \in DeviceIds, envOk \in BOOLEAN :
       GuardsFail(deviceId) =>
         /\ onRetryTimer([Cur EXCEPT !.retryTimer = deviceId], envOk)
              = [Cur EXCEPT !.retryTimer = NoDev]
         /\ onTrackerReconnectTimer([Cur EXCEPT !.trackerReconnectTimer = deviceId], envOk)
              = [Cur EXCEPT !.trackerReconnectTimer = NoDev]
  /\ \A envOk \in BOOLEAN :
       /\ retryTimer # NoDev /\ CanCreate(retryTimer, envOk) =>
            (Attempted(onRetryTimer(Cur, envOk)) <=> ~GuardsFail(retryTimer))
       /\ trackerReconnectTimer # NoDev /\ CanCreate(trackerReconnectTimer, envOk) =>
            (Attempted(onTrackerReconnectTimer(Cur, envOk))
               <=> ~GuardsFail(trackerReconnectTimer))
  /\ \A deviceId \in TrackedIds, st \in {"device", "offline"} :
       LET event == [deviceId |-> deviceId, state |-> st, previous |-> NoDev]
           r == handleTrackerEvent(Cur, event)
       IN /\ ~Attempted(r)
          /\ r.state = state /\ r.socket = socket /\ r.retryTimer = retryTimer
          /\ st # "device" \/ GuardsFail(deviceId) => r = Cur
          /\ st = "device" /\ ~GuardsFail(deviceId) =>
               r.trackerReconnectTimer = targetDeviceId

\* A TrackerReconnectTimer is about to fire for the recorded target while a
\* snapshot is due that reports the other device present and the target gone.
C37_Witness ==
  /\ state = "waiting_for_device" /\ trackerReconnectTimer = targetDeviceId
  /\ retryTimer = NoDev
  /\ trackerSocket = "live" /\ eventListener
  /\ \E d \in TrackedIds \ {targetDeviceId} :
       knownDevices[d] = NoDev /\ knownDevices[targetDeviceId] = "device"

\* The connect call that made sock is still waiting for its handshake and
\* a later connect call or shutdown has taken the Session reference away.
SupersededWaiter(sock) == Superseded(sock) /\ socks[sock].waiter

\* C38: the socket of a connect call superseded before its handshake
\* completed is destroyed, so the call can no longer resolve; the close of
\* that socket rejects the call and changes nothing else: state, the Session
\* the superseding operation established, target, timers and pending
\* commands stay as they are, and no callback runs.
C38_SupersededConnectRejects ==
  \A sock \in SockIds, cbThrows \in BOOLEAN :
    SupersededWaiter(sock) =>
      /\ socks[sock].destroyed /\ ~CanConnect(sock) /\ CanClose(sock)
      /\ LET r == closeTurn(Cur, sock, cbThrows)
         IN /\ r.log.result = "rejected"
            /\ [r EXCEPT !.socks[sock] = socks[sock], !.log = EmptyLog] = Cur
            /\ r.log.notified = 0 /\ r.log.scheduled = {} /\ r.log.settled = {}
            /\ r.log.forwards = 0

\* A second connect call has completed its handshake while the first call,
\* for the other device, still waits for the close of its socket.
C38_Witness ==
  \E sock \in SockIds :
    /\ SupersededWaiter(sock)
    /\ state = "connected" /\ socket # NoSock /\ ~socks[socket].destroyed
    /\ connectedDeviceId # socks[sock].deviceId

\* C39 as stated: the PendingCommand map is non-empty only while state =
\* connected; no command stays pending once its Session is discarded, a
\* connect call for another target included.
C39_PendingOnlyWhileConnected ==
  pendingRequests # {} => state = "connected"

\* A connect call for another target has superseded the connected Session
\* while a command was in flight: the new Session's handshake is pending and
\* the command is still in the map, its deadline timer running.
C39_Witness ==
  /\ state = "connecting" /\ socket # NoSock /\ ~socks[socket].destroyed
  /\ \E id \in pendingRequests : cmds[id].status = "pending" /\ cmds[id].timer
  /\ \E sock \in SockIds : Superseded(sock) /\ socks[sock].deviceId # targetDeviceId

\* Command id is in flight: accepted by sendCommand and not yet settled.
InFlight(id) == id \in pendingRequests

\* Between turns a command is in the map exactly while its promise is
\* unsettled and its deadline timer runs; a promise was never settled twice,
\* and a settled command has left the map and has no timer.
SettledOnce ==
  \A id \in CmdIds :
    /\ cmds[id].settles = 0
    /\ InFlight(id) <=> cmds[id].status = "pending"
    /\ InFlight(id) <=> cmds[id].timer
    /\ ~InFlight(id) => cmds[id] = NewCmd

\* C40: every command accepted by sendCommand is eventually settled, by its
\* response, its deadline or a bulk rejection, and settled exactly once,
\* after which its entry is absent from the map, whatever the interleaving
\* of responses, closes, connect calls and timers.
C40_EveryCommandSettles ==
  /\ []SettledOnce
  /\ \A id \in CmdIds : InFlight(id) ~> ~InFlight(id)

\* The Session of two commands in flight was superseded and the new target
\* is not reachable: nothing but the deadlines can settle them.
C40_Witness ==
  /\ state = "waiting_for_device" /\ socket = NoSock
  /\ \A id \in CmdIds : InFlight(id) /\ cmds[id].timer

====
